---- MODULE Spec2Model ----
(***************************************************************************)
(* Model of the Discourse hooks analyser (index.js): the parallel          *)
(* scheduler of per-version workers, the cross-version merge into hooksDb, *)
(* the argument consolidation and the report.                              *)
(*                                                                         *)
(* A version tag vM.m.p is the triple <<M, m, p>> its parseVersion yields; *)
(* the sentinel is Main.  An argument token is the sequence of its         *)
(* characters, so that the regular expressions of the consolidator are     *)
(* computed on the characters as the code computes them.                   *)
(***************************************************************************)
EXTENDS Integers, Sequences, FiniteSets, TLC

VARIABLES
    pc,            \* position of run(): start, await, merge, report, done, exit (returned
                   \* on an empty catalog), rejected (the promise of run() rejected)
    cpus,          \* os.cpus().length
    tree,          \* the source tree of every version (the upstream repository)
    versions,      \* const versions = await this.getDiscourseVersions()
    maxWorkers,    \* const maxWorkers
    results,       \* processVersionsInParallel: results
    completed,     \* processVersionsInParallel: completed
    versionIndex,  \* processVersionsInParallel: versionIndex
    workers,       \* processVersionsInParallel: workers (live Worker objects, by version index)
    wstate,        \* position of the worker thread of each version index
    inbox,         \* the message a worker posted, not yet handled by the main thread
    hooksDb,       \* this.hooksDb (a Map, in insertion order)
    cursor,        \* position of the merge loops: <<index into results, index into hooks>>
    report,        \* what this run wrote to hooks-report.json, NoReport before it is written
    snapshots,     \* the work directory: the snapshot directory of every version
    exports,       \* the versions this run exported from the bare repository
    readFailed,    \* per version index: the file whose read failed in the walk, 0 for none
    exitCode,      \* the exit of the process, NoExit while it runs
    runNo,         \* the number of this run on the work directory
    cmpArgs,       \* the tags handed to compareVersions
    cmpOut,        \* what compareVersions returned for them
    callArgs,      \* the arguments a call is written with, after the hook name
    parsed         \* what the parser returned for the text of these arguments

vars == <<pc, cpus, tree, versions, maxWorkers, results, completed, versionIndex,
          workers, wstate, inbox, hooksDb, cursor, report, snapshots, exports,
          readFailed, exitCode, runNo, cmpArgs, cmpOut, callArgs, parsed>>

\* the scheduler's variables
schedVars == <<results, completed, versionIndex, workers, wstate, inbox>>
\* the work directory
diskVars == <<snapshots, exports>>
\* the operands and the results of the pure functions applied on their own
pureVars == <<cmpArgs, cmpOut, callArgs, parsed>>

-----------------------------------------------------------------------------
(* Bounds of the model *)

MaxCpus == 3
MaxTags == 3
MaxRuns == 2

(* Program constants *)

WorkerLimit == 10
RetiredListLimit == 10
MostChangesLimit == 10

-----------------------------------------------------------------------------
(* Generic helpers *)

Min2(a, b) == IF a <= b THEN a ELSE b

Range(s) == {s[i] : i \in 1..Len(s)}

RECURSIVE SeqSum(_)
SeqSum(s) == IF s = <<>> THEN 0 ELSE Head(s) + SeqSum(Tail(s))

\* first index of x in s, 0 when absent (Array.prototype.indexOf, 1-based)
IndexOf(s, x) ==
    IF \E i \in 1..Len(s) : s[i] = x
    THEN CHOOSE i \in 1..Len(s) : s[i] = x /\ \A j \in 1..(i - 1) : s[j] # x
    ELSE 0

\* s without its element at index i (Array.prototype.splice(i, 1))
RemoveAt(s, i) == [j \in 1..(Len(s) - 1) |-> IF j < i THEN s[j] ELSE s[j + 1]]

-----------------------------------------------------------------------------
(* Versions and their order *)

Main == <<"main">>

V120 == <<1, 2, 0>>
V1100 == <<1, 10, 0>>
V200 == <<2, 0, 0>>
V201 == <<2, 0, 1>>

\* the tags the upstream repository may carry
Tags == {V120, V1100, V200, V201}

\* a comparison that leaves the patch number out
compareVersions_NoPatch(a, b) ==
    IF a = Main /\ b = Main THEN 0
    ELSE IF a = Main THEN 1
    ELSE IF b = Main THEN -1
    ELSE IF a[1] # b[1] THEN a[1] - b[1]
    ELSE a[2] - b[2]

\* compareVersions(a, b), on the parsed tags
compareVersions(a, b) ==
    IF a = Main /\ b = Main THEN 0
    ELSE IF a = Main THEN 1
    ELSE IF b = Main THEN -1
    ELSE IF a[1] # b[1] THEN a[1] - b[1]
    ELSE IF a[2] # b[2] THEN a[2] - b[2]
    ELSE a[3] - b[3]

\* Array.prototype.sort((a, b) => this.compareVersions(a, b)): each element is
\* inserted after the last element that is not greater (the sort is stable)
RECURSIVE InsertVersion(_, _)
InsertVersion(s, x) ==
    IF s = <<>> THEN <<x>>
    ELSE IF compareVersions(x, Head(s)) < 0 THEN <<x>> \o s
         ELSE <<Head(s)>> \o InsertVersion(Tail(s), x)

RECURSIVE SortVersions(_)
SortVersions(s) ==
    IF s = <<>> THEN <<>>
    ELSE InsertVersion(SortVersions(SubSeq(s, 1, Len(s) - 1)), s[Len(s)])

RECURSIVE SetToSeq(_)
SetToSeq(S) ==
    IF S = {} THEN <<>>
    ELSE LET x == CHOOSE y \in S : TRUE IN <<x>> \o SetToSeq(S \ {x})

\* getDiscourseVersions, success path: the tags sorted, then "main"
CatalogOf(tags) == Append(SortVersions(SetToSeq(tags)), Main)

-----------------------------------------------------------------------------
(* Tags as text: compareVersions parses the text of a tag *)

\* the text of "main"
tMain == <<"m", "a", "i", "n">>

\* the decimal digits of a natural number
RECURSIVE Decimal(_)
Decimal(n) ==
    IF n < 10 THEN <<<<"0", "1", "2", "3", "4", "5", "6", "7", "8", "9">>[n + 1]>>
    ELSE Append(Decimal(n \div 10), <<"0", "1", "2", "3", "4", "5", "6", "7", "8", "9">>[(n % 10) + 1])

\* the text of the tag of a version: vM.m.p, or main
TagText(v) ==
    IF v = Main THEN tMain
    ELSE <<"v">> \o Decimal(v[1]) \o <<".">> \o Decimal(v[2]) \o <<".">> \o Decimal(v[3])

\* String.prototype.replace(c, ""): the text without the first occurrence of c
ReplaceFirst(text, c) ==
    IF IndexOf(text, c) = 0 THEN text ELSE RemoveAt(text, IndexOf(text, c))

\* String.prototype.split(c)
RECURSIVE Split(_, _)
Split(text, c) ==
    IF IndexOf(text, c) = 0 THEN <<text>>
    ELSE <<SubSeq(text, 1, IndexOf(text, c) - 1)>>
         \o Split(SubSeq(text, IndexOf(text, c) + 1, Len(text)), c)

\* Number(text) of a string of decimal digits (Number("") is 0)
RECURSIVE Number(_)
Number(text) ==
    IF text = <<>> THEN 0
    ELSE Number(SubSeq(text, 1, Len(text) - 1)) * 10
         + (CHOOSE d \in 0..9 :
               <<"0", "1", "2", "3", "4", "5", "6", "7", "8", "9">>[d + 1] = text[Len(text)])

\* const parseVersion = (v) => v.replace("v", "").split(".").map(Number)
parseVersion(v) ==
    LET parts == Split(ReplaceFirst(v, "v"), ".")
    IN [i \in 1..Len(parts) |-> Number(parts[i])]

\* compareVersions on the text of two tags: the test for "main", then parseVersion
compareTags(a, b) ==
    compareVersions(IF a = tMain THEN Main ELSE parseVersion(a),
                    IF b = tMain THEN Main ELSE parseVersion(b))

-----------------------------------------------------------------------------
(* Argument tokens: sequences of characters *)

Lower == {"a", "b", "c", "d", "e", "f", "g", "h", "i", "j", "k", "l", "m",
          "n", "o", "p", "q", "r", "s", "t", "u", "v", "w", "x", "y", "z"}
Upper == {"A", "B", "C", "D", "E", "F", "G", "H", "I", "J", "K", "L", "M",
          "N", "O", "P", "Q", "R", "S", "T", "U", "V", "W", "X", "Y", "Z"}
Digit == {"0", "1", "2", "3", "4", "5", "6", "7", "8", "9"}

\* [a-zA-Z_]
IdStart == Lower \cup Upper \cup {"_"}
\* [a-zA-Z0-9_]
IdChar == IdStart \cup Digit

tTopic == <<"t", "o", "p", "i", "c">>
tUser == <<"u", "s", "e", "r">>
tCurrentUser == <<"c", "u", "r", "r", "e", "n", "t", "U", "s", "e", "r">>
tModel == <<"m", "o", "d", "e", "l">>
tString == <<"s", "t", "r", "i", "n", "g">>
tNumber == <<"n", "u", "m", "b", "e", "r">>
tBoolean == <<"b", "o", "o", "l", "e", "a", "n">>
tNull == <<"n", "u", "l", "l">>
tArray == <<"a", "r", "r", "a", "y">>
tObject == <<"o", "b", "j", "e", "c", "t">>
tThis == <<"t", "h", "i", "s">>
tValue == <<"v", "a", "l", "u", "e">>

\* the UTF-16 code unit order of the characters, as far as sort() needs it:
\* newline, space, " ' ( ) , . digits : = @, upper case, [ \ ] _, lower case, { }
CharRank(c) ==
    IF c = "\n" THEN 10
    ELSE IF c = " " THEN 32
    ELSE IF c = "\"" THEN 34
    ELSE IF c = "'" THEN 39
    ELSE IF c = "(" THEN 40
    ELSE IF c = ")" THEN 41
    ELSE IF c = "," THEN 44
    ELSE IF c = "." THEN 46
    ELSE IF c = ":" THEN 58
    ELSE IF c = "=" THEN 61
    ELSE IF c = "@" THEN 64
    ELSE IF c = "[" THEN 91
    ELSE IF c = "\\" THEN 92
    ELSE IF c = "]" THEN 93
    ELSE IF c \in Digit THEN 48
    ELSE IF c \in Upper THEN 65
    ELSE IF c = "_" THEN 95
    ELSE IF c \in Lower THEN 97
    ELSE IF c = "{" THEN 123
    ELSE 125

LetterIndex(c) ==
    CHOOSE i \in 1..26 :
        <<"a", "b", "c", "d", "e", "f", "g", "h", "i", "j", "k", "l", "m",
          "n", "o", "p", "q", "r", "s", "t", "u", "v", "w", "x", "y", "z">>[i] = c
        \/ <<"A", "B", "C", "D", "E", "F", "G", "H", "I", "J", "K", "L", "M",
             "N", "O", "P", "Q", "R", "S", "T", "U", "V", "W", "X", "Y", "Z">>[i] = c

DigitValue(c) ==
    CHOOSE i \in 0..9 : <<"0", "1", "2", "3", "4", "5", "6", "7", "8", "9">>[i + 1] = c

\* the code unit of a character
CharCode(c) ==
    IF c \in Lower \cup Upper THEN CharRank(c) + LetterIndex(c) - 1
    ELSE IF c \in Digit THEN CharRank(c) + DigitValue(c)
    ELSE CharRank(c)

\* the default comparator of Array.prototype.sort on strings: by code units,
\* a proper prefix first
RECURSIVE CompareTokens(_, _)
CompareTokens(a, b) ==
    IF a = <<>> /\ b = <<>> THEN 0
    ELSE IF a = <<>> THEN -1
    ELSE IF b = <<>> THEN 1
    ELSE IF CharCode(Head(a)) # CharCode(Head(b))
         THEN CharCode(Head(a)) - CharCode(Head(b))
    ELSE CompareTokens(Tail(a), Tail(b))

\* /^[a-zA-Z_][a-zA-Z0-9_]*$/.test(arg)
IsIdentifier(arg) ==
    /\ Len(arg) >= 1
    /\ arg[1] \in IdStart
    /\ \A i \in 1..Len(arg) : arg[i] \in IdChar

ReservedTokens == {tString, tNumber, tBoolean, tNull, tArray, tObject, tThis}

\* Array.prototype.sort() on tokens (default comparator)
RECURSIVE InsertToken(_, _)
InsertToken(s, x) ==
    IF s = <<>> THEN <<x>>
    ELSE IF CompareTokens(x, Head(s)) < 0 THEN <<x>> \o s
         ELSE <<Head(s)>> \o InsertToken(Tail(s), x)

RECURSIVE SortTokens(_)
SortTokens(s) ==
    IF s = <<>> THEN <<>>
    ELSE InsertToken(SortTokens(SubSeq(s, 1, Len(s) - 1)), s[Len(s)])

\* Array.prototype.sort((a, b) => a - b) on line numbers
RECURSIVE InsertLine(_, _)
InsertLine(s, x) ==
    IF s = <<>> THEN <<x>>
    ELSE IF x - Head(s) < 0 THEN <<x>> \o s
         ELSE <<Head(s)>> \o InsertLine(Tail(s), x)

RECURSIVE SortLines(_)
SortLines(s) ==
    IF s = <<>> THEN <<>>
    ELSE InsertLine(SortLines(SubSeq(s, 1, Len(s) - 1)), s[Len(s)])

\* isPlainVariableName(arg)
isPlainVariableName(arg) == IsIdentifier(arg) /\ arg \notin ReservedTokens

\* the end of the longest run of identifier characters of arg that starts at i
\* (i - 1 when arg[i] does not start an identifier)
IdRunEnd(arg, i) ==
    IF i > Len(arg) \/ arg[i] \notin IdStart THEN i - 1
    ELSE CHOOSE j \in i..Len(arg) :
            /\ \A k \in i..j : arg[k] \in IdChar
            /\ (j = Len(arg) \/ arg[j + 1] \notin IdChar)

\* arg.match(/\.([a-zA-Z_][a-zA-Z0-9_]*)\(\)/): the positions of a "." that the
\* pattern matches at
MethodMatches(arg) ==
    {i \in 1..Len(arg) :
        /\ arg[i] = "."
        /\ IdRunEnd(arg, i + 1) >= i + 1
        /\ IdRunEnd(arg, i + 1) + 2 <= Len(arg)
        /\ arg[IdRunEnd(arg, i + 1) + 1] = "("
        /\ arg[IdRunEnd(arg, i + 1) + 2] = ")"}

\* arg.match(/\.([a-zA-Z_][a-zA-Z0-9_]*)$/)
MemberMatches(arg) ==
    {i \in 1..Len(arg) :
        /\ arg[i] = "."
        /\ IdRunEnd(arg, i + 1) >= i + 1
        /\ IdRunEnd(arg, i + 1) = Len(arg)}

SetMin(S) == CHOOSE x \in S : \A y \in S : x <= y

NoName == <<>>

\* extractMethodOrMemberName(arg); NoName stands for null
extractMethodOrMemberName(arg) ==
    IF MethodMatches(arg) # {}
    THEN LET i == SetMin(MethodMatches(arg)) IN SubSeq(arg, i + 1, IdRunEnd(arg, i + 1))
    ELSE IF MemberMatches(arg) # {}
    THEN LET i == SetMin(MemberMatches(arg)) IN SubSeq(arg, i + 1, Len(arg))
    ELSE NoName

\* chooseBestArgumentName(argumentGroup)
chooseBestArgumentName(argumentGroup) ==
    LET plain == SelectSeq(argumentGroup, isPlainVariableName)
        Extracts(a) == extractMethodOrMemberName(a) # NoName
        extracted == SelectSeq(argumentGroup, Extracts)
    IN IF plain # <<>> THEN Head(plain)
       ELSE IF extracted # <<>> THEN extractMethodOrMemberName(Head(extracted))
       ELSE tValue

-----------------------------------------------------------------------------
(* The argument parser: parseArguments, parseAppEventArgs and their normalizers *)

\* \s, as far as the texts of the model hold white space
Space == {" ", "\n"}
\* \w
WordChar == IdChar
Quote == {"\"", "'"}
Opening == {"(", "[", "{"}
Closing == {")", "]", "}"}

\* String.prototype.trim()
RECURSIVE TrimStart(_)
TrimStart(text) ==
    IF text # <<>> /\ Head(text) \in Space THEN TrimStart(Tail(text)) ELSE text

RECURSIVE TrimEnd(_)
TrimEnd(text) ==
    IF text # <<>> /\ text[Len(text)] \in Space
    THEN TrimEnd(SubSeq(text, 1, Len(text) - 1))
    ELSE text

Trim(text) == TrimEnd(TrimStart(text))

\* Array.prototype.join(sep)
RECURSIVE Join(_, _)
Join(parts, sep) ==
    IF parts = <<>> THEN <<>>
    ELSE IF Len(parts) = 1 THEN parts[1]
    ELSE parts[1] \o sep \o Join(Tail(parts), sep)

\* the characters of lit stand in text from position i on
StartsAt(text, i, lit) ==
    /\ i >= 1
    /\ i + Len(lit) - 1 <= Len(text)
    /\ SubSeq(text, i, i + Len(lit) - 1) = lit

\* String.prototype.includes(lit)
Includes(text, lit) == \E i \in 1..Len(text) : StartsAt(text, i, lit)

\* the end of the longest run of characters of chars that starts at i (i - 1 when
\* text[i] is none of them): a greedy [chars]*
RunEnd(text, i, chars) ==
    IF i > Len(text) \/ text[i] \notin chars THEN i - 1
    ELSE CHOOSE j \in i..Len(text) :
            /\ \A k \in i..j : text[k] \in chars
            /\ (j = Len(text) \/ text[j + 1] \notin chars)

\* the same for the characters outside chars: a greedy [^chars]*
RunEndNot(text, i, chars) ==
    IF i > Len(text) \/ text[i] \in chars THEN i - 1
    ELSE CHOOSE j \in i..Len(text) :
            /\ \A k \in i..j : text[k] \notin chars
            /\ (j = Len(text) \/ text[j + 1] \in chars)

\* argString.trim().replace(/^,\s*/, "")
Cleaned(argString) ==
    LET t == Trim(argString)
    IN IF t # <<>> /\ Head(t) = "," THEN TrimStart(Tail(t)) ELSE t

\* args.push(...) of a piece whose trim() is not empty
PushPiece(args, current) ==
    IF Trim(current) # <<>> THEN Append(args, Trim(current)) ELSE args

\* the for loop over the characters of cleaned, from position i on, and the
\* handling of the last piece: the trimmed non-empty pieces between the commas
\* outside strings and at depth 0.  parseArguments, parseAppEventArgs and the
\* object branch of normalizeAppEventArg each hold a copy of this loop (every
\* character but a separating comma is added to current in all three); they
\* differ in what they do with a piece.
RECURSIVE ScanArguments(_, _, _, _, _, _, _)
ScanArguments(cleaned, i, current, depth, inString, stringChar, args) ==
    IF i > Len(cleaned) THEN PushPiece(args, current)
    ELSE LET char == cleaned[i]
             before == IF i > 1 THEN cleaned[i - 1] ELSE ""
         IN IF ~inString /\ char \in Quote
            THEN ScanArguments(cleaned, i + 1, Append(current, char), depth, TRUE, char, args)
            ELSE IF inString /\ char = stringChar /\ before # "\\"
            THEN ScanArguments(cleaned, i + 1, Append(current, char), depth, FALSE,
                               stringChar, args)
            ELSE IF ~inString /\ char \in Opening
            THEN ScanArguments(cleaned, i + 1, Append(current, char), depth + 1, inString,
                               stringChar, args)
            ELSE IF ~inString /\ char \in Closing
            THEN ScanArguments(cleaned, i + 1, Append(current, char), depth - 1, inString,
                               stringChar, args)
            ELSE IF ~inString /\ char = "," /\ depth = 0
            THEN ScanArguments(cleaned, i + 1, <<>>, depth, inString, stringChar,
                               PushPiece(args, current))
            ELSE ScanArguments(cleaned, i + 1, Append(current, char), depth, inString,
                               stringChar, args)

\* the pieces of a text
Pieces(text) == ScanArguments(text, 1, <<>>, 0, FALSE, "", <<>>)

\* extractPropertyName(propString); NoName stands for null
extractPropertyName(propString) ==
    IF propString # <<>> /\ \A i \in 1..Len(propString) : propString[i] \in WordChar
    THEN propString
    ELSE LET w == RunEnd(propString, 1, WordChar)
             sp == RunEnd(propString, w + 1, Space)
         IN IF w >= 1 /\ StartsAt(propString, sp + 1, <<":">>)
            THEN SubSeq(propString, 1, w)
            ELSE NoName

\* the property names of the pieces of an object literal, in source order
RECURSIVE PropNames(_)
PropNames(pieces) ==
    IF pieces = <<>> THEN <<>>
    ELSE IF extractPropertyName(Head(pieces)) # NoName
         THEN <<extractPropertyName(Head(pieces))>> \o PropNames(Tail(pieces))
         ELSE PropNames(Tail(pieces))

\* trimmed.match(/^['"].*['"]$/)
IsQuoted(trimmed) ==
    /\ Len(trimmed) >= 2
    /\ trimmed[1] \in Quote
    /\ trimmed[Len(trimmed)] \in Quote
    /\ \A i \in 2..(Len(trimmed) - 1) : trimmed[i] # "\n"

\* trimmed.match(/^\d+$/)
IsDigits(trimmed) ==
    trimmed # <<>> /\ \A i \in 1..Len(trimmed) : trimmed[i] \in Digit

\* normalizeAppEventArg(arg)
normalizeAppEventArg(arg) ==
    LET trimmed == Trim(arg)
    IN IF StartsAt(trimmed, 1, <<"{">>) /\ StartsAt(trimmed, Len(trimmed), <<"}">>)
       THEN LET propNames == PropNames(Pieces(SubSeq(trimmed, 2, Len(trimmed) - 1)))
            IN IF Len(propNames) > 0
               THEN <<"{">> \o Join(SortTokens(propNames), <<",">>) \o <<"}">>
               ELSE tObject
       ELSE IF IsQuoted(trimmed) THEN tString
       ELSE IF IsDigits(trimmed) THEN tNumber
       ELSE IF trimmed = <<"t", "r", "u", "e">> \/ trimmed = <<"f", "a", "l", "s", "e">>
            THEN tBoolean
       ELSE IF StartsAt(trimmed, 1, <<"[">>) /\ StartsAt(trimmed, Len(trimmed), <<"]">>)
            THEN tArray
       ELSE IF trimmed = tNull THEN tNull
       ELSE trimmed

RECURSIVE MapNormalizeAppEventArg(_)
MapNormalizeAppEventArg(pieces) ==
    IF pieces = <<>> THEN <<>>
    ELSE <<normalizeAppEventArg(Head(pieces))>> \o MapNormalizeAppEventArg(Tail(pieces))

\* parseAppEventArgs(argString)
parseAppEventArgs(argString) ==
    IF Trim(argString) = <<>> THEN <<>>
    ELSE SortTokens(MapNormalizeAppEventArg(Pieces(Cleaned(argString))))

\* content.split(/\s+/)
RECURSIVE SplitOnSpace(_)
SplitOnSpace(text) ==
    IF \A i \in 1..Len(text) : text[i] \notin Space THEN <<text>>
    ELSE LET k == CHOOSE i \in 1..Len(text) :
                      text[i] \in Space /\ \A j \in 1..(i - 1) : text[j] \notin Space
         IN <<SubSeq(text, 1, k - 1)>>
            \o SplitOnSpace(SubSeq(text, RunEnd(text, k, Space) + 1, Len(text)))

\* .map((pair) => pair.split("=")[0])
RECURSIVE MapKeys(_)
MapKeys(pairs) ==
    IF pairs = <<>> THEN <<>>
    ELSE <<Split(Head(pairs), "=")[1]>> \o MapKeys(Tail(pairs))

NoMatch == [found |-> FALSE, from |-> 0, to |-> 0, end |-> 0]

\* /{{hash\s+([^}]+)}}/ matched at position i: the content is text[from..to] and the
\* match ends at end.  \s+ and [^}]+ are greedy; when nothing but white space
\* stands before }}, the last white space character is the content.
HashMatch(text, i) ==
    LET s == i + 6
        w == RunEnd(text, s, Space)
        c == RunEndNot(text, w + 1, {"}"})
        from == IF c >= w + 1 THEN w + 1 ELSE w
        to == IF c >= w + 1 THEN c ELSE w
    IN IF /\ StartsAt(text, i, <<"{", "{", "h", "a", "s", "h">>)
          /\ w >= s
          /\ (c >= w + 1 \/ w >= s + 1)
          /\ StartsAt(text, to + 1, <<"}", "}">>)
       THEN [found |-> TRUE, from |-> from, to |-> to, end |-> to + 2]
       ELSE NoMatch

\* normalized.replace(/{{hash\s+([^}]+)}}/g, ...), from position i on
RECURSIVE ReplaceHash(_, _)
ReplaceHash(text, i) ==
    IF i > Len(text) THEN <<>>
    ELSE LET m == HashMatch(text, i)
         IN IF m.found
            THEN <<"{", "{", "h", "a", "s", "h", " ">>
                 \o Join(MapKeys(SplitOnSpace(SubSeq(text, m.from, m.to))), <<" ">>)
                 \o <<"}", "}">> \o ReplaceHash(text, m.end + 1)
            ELSE <<text[i]>> \o ReplaceHash(text, i + 1)

\* /{{([^}]+)}}/ matched at position i
ValueMatch(text, i) ==
    LET c == RunEndNot(text, i + 2, {"}"})
    IN IF /\ StartsAt(text, i, <<"{", "{">>)
          /\ c >= i + 2
          /\ StartsAt(text, c + 1, <<"}", "}">>)
       THEN [found |-> TRUE, from |-> i + 2, to |-> c, end |-> c + 2]
       ELSE NoMatch

\* normalized.replace(/{{([^}]+)}}/g, ...), from position i on
RECURSIVE ReplaceValue(_, _)
ReplaceValue(text, i) ==
    IF i > Len(text) THEN <<>>
    ELSE LET m == ValueMatch(text, i)
             content == SubSeq(text, m.from, m.to)
         IN IF m.found
            THEN (IF Includes(content, <<"h", "a", "s", "h">>) THEN SubSeq(text, i, m.end)
                  ELSE IF \A k \in 1..Len(content) : content[k] \in WordChar \cup {"@", "."}
                       THEN <<"{", "{">> \o tValue \o <<"}", "}">>
                  ELSE SubSeq(text, i, m.end))
                 \o ReplaceValue(text, m.end + 1)
            ELSE <<text[i]>> \o ReplaceValue(text, i + 1)

\* /@(\w+)=(["'])([^"']*)\2/ matched at position i: the name is text[from..to]
AttrMatch(text, i) ==
    LET w == RunEnd(text, i + 1, WordChar)
        c == RunEndNot(text, w + 3, Quote)
    IN IF /\ StartsAt(text, i, <<"@">>)
          /\ w >= i + 1
          /\ StartsAt(text, w + 1, <<"=">>)
          /\ w + 2 <= Len(text)
          /\ text[w + 2] \in Quote
          /\ c + 1 <= Len(text)
          /\ text[c + 1] = text[w + 2]
       THEN [found |-> TRUE, from |-> i + 1, to |-> w, end |-> c + 1]
       ELSE NoMatch

\* normalized.replace(/@(\w+)=(["'])([^"']*)\2/g, "@$1=$2string$2"), from position i on
RECURSIVE ReplaceAttr(_, _)
ReplaceAttr(text, i) ==
    IF i > Len(text) THEN <<>>
    ELSE LET m == AttrMatch(text, i)
         IN IF m.found
            THEN <<"@">> \o SubSeq(text, m.from, m.to) \o <<"=", text[m.to + 2]>>
                 \o tString \o <<text[m.to + 2]>> \o ReplaceAttr(text, m.end + 1)
            ELSE <<text[i]>> \o ReplaceAttr(text, i + 1)

\* normalizeArgument(arg)
normalizeArgument(arg) == ReplaceAttr(ReplaceValue(ReplaceHash(arg, 1), 1), 1)

RECURSIVE MapNormalizeArgument(_)
MapNormalizeArgument(pieces) ==
    IF pieces = <<>> THEN <<>>
    ELSE <<normalizeArgument(Head(pieces))>> \o MapNormalizeArgument(Tail(pieces))

\* parseArguments(argString)
parseArguments(argString) ==
    IF Trim(argString) = <<>> THEN <<>>
    ELSE MapNormalizeArgument(Pieces(Cleaned(argString)))

-----------------------------------------------------------------------------
(* The extractor, over the call sites of a source tree *)

PluginOutlet == "plugin_outlet"
ValueTransformer == "value_transformer"
AppEventTrigger == "app_event_trigger"
BehaviorTransformer == "behavior_transformer"

\* the form of a call site: one of the four hook types, or the {{plugin-outlet}}
\* helper, which the extractor reports under the type plugin_outlet
PluginOutletHelper == "plugin_outlet_helper"

HookType(form) == IF form = PluginOutletHelper THEN PluginOutlet ELSE form

\* A call site of a file: the hook name and form (type), the line it starts at, the number
\* of lines it spans, whether the keyword and the name sit on one line (so that the
\* single-line pattern sees it too), and its parsed argument tokens.
Site(name, type, line, span, inline, args) ==
    [name |-> name, type |-> type, line |-> line, span |-> span,
     inline |-> inline, args |-> args]

\* getMatchLines(content, match): startLine .. startLine + matchLines - 1
getMatchLines(site) == [i \in 1..site.span |-> site.line + i - 1]

\* findMultiLineHooks: the record pushed for one match
MultiLineRecord(file, site) ==
    [name |-> site.name, type |-> HookType(site.type), file |-> file,
     lines |-> getMatchLines(site),
     hasArguments |-> TRUE,
     arguments |-> IF site.type = BehaviorTransformer THEN <<>> ELSE site.args]

\* findHooks: the record pushed for one single-line match (it has no arguments)
SingleLineRecord(file, site) ==
    [name |-> site.name, type |-> HookType(site.type), file |-> file,
     lines |-> <<site.line>>, hasArguments |-> FALSE, arguments |-> <<>>]

RECURSIVE MapMulti(_, _)
MapMulti(file, sites) ==
    IF sites = <<>> THEN <<>>
    ELSE <<MultiLineRecord(file, Head(sites))>> \o MapMulti(file, Tail(sites))

RECURSIVE MapSingle(_, _)
MapSingle(file, sites) ==
    IF sites = <<>> THEN <<>>
    ELSE <<SingleLineRecord(file, Head(sites))>> \o MapSingle(file, Tail(sites))

\* findMultiLineHooks(content, filePath, dir, hooks): the value transformers, then
\* the app events, the behavior transformers, the <PluginOutlet> components and the
\* {{plugin-outlet}} helpers of the file
findMultiLineHooks(f) ==
    LET IsVT(c) == c.type = ValueTransformer
        IsAE(c) == c.type = AppEventTrigger
        IsBT(c) == c.type = BehaviorTransformer
        IsPO(c) == c.type = PluginOutlet
        IsPH(c) == c.type = PluginOutletHelper
    IN MapMulti(f.file, SelectSeq(f.sites, IsVT))
       \o MapMulti(f.file, SelectSeq(f.sites, IsAE))
       \o MapMulti(f.file, SelectSeq(f.sites, IsBT))
       \o MapMulti(f.file, SelectSeq(f.sites, IsPO))
       \o MapMulti(f.file, SelectSeq(f.sites, IsPH))

\* the callback of walkDirectory in findHooks, for one file
FindHooksInFile(f) ==
    LET Inline(c) == c.inline
    IN findMultiLineHooks(f) \o MapSingle(f.file, SelectSeq(f.sites, Inline))

\* findHooks(dir): the records of every file, in the order of the walk
RECURSIVE findHooks(_)
findHooks(files) ==
    IF files = <<>> THEN <<>>
    ELSE FindHooksInFile(Head(files)) \o findHooks(Tail(files))

\* hook.arguments || []
ArgumentsOrEmpty(hook) == IF hook.hasArguments THEN hook.arguments ELSE <<>>

\* newLines.forEach((line) => { if (!lines.includes(line)) lines.push(line) })
RECURSIVE PushNewLines(_, _)
PushNewLines(lines, newLines) ==
    IF newLines = <<>> THEN lines
    ELSE PushNewLines(
            IF Head(newLines) \in Range(lines) THEN lines ELSE Append(lines, Head(newLines)),
            Tail(newLines))

\* a merge that leaves the sort out
MergeLines_Unsorted(lines, newLines) == PushNewLines(lines, newLines)

\* the merge of new lines into a line list: push the missing ones, then sort
MergeLines(lines, newLines) == SortLines(PushNewLines(lines, newLines))

\* an aggregation that never folds: every raw record becomes a record of its own
AggregateHook_NeverFolds(hookMap, hook, version) ==
    Append(hookMap,
           [name |-> hook.name, type |-> hook.type, file |-> hook.file,
            lines |-> hook.lines,
            arguments |-> IF hook.hasArguments THEN hook.arguments ELSE <<>>,
            version |-> version])

\* processVersion: one step of foundHooks.forEach on hookMap (a Map in insertion
\* order, keyed by name|type|file)
AggregateHook(hookMap, hook, version) ==
    LET SameKey(e) == e.name = hook.name /\ e.type = hook.type /\ e.file = hook.file
    IN IF \E i \in 1..Len(hookMap) : SameKey(hookMap[i])
       THEN [i \in 1..Len(hookMap) |->
                IF SameKey(hookMap[i])
                THEN [hookMap[i] EXCEPT !.lines = MergeLines(@, hook.lines)]
                ELSE hookMap[i]]
       ELSE Append(hookMap,
                   [name |-> hook.name, type |-> hook.type, file |-> hook.file,
                    lines |-> hook.lines, arguments |-> ArgumentsOrEmpty(hook),
                    version |-> version])

RECURSIVE AggregateHooks(_, _, _)
AggregateHooks(hookMap, foundHooks, version) ==
    IF foundHooks = <<>> THEN hookMap
    ELSE AggregateHooks(AggregateHook(hookMap, Head(foundHooks), version),
                        Tail(foundHooks), version)

\* processVersion, success path: the hooks posted for a version whose snapshot
\* holds the given files
WorkerHooks(files, version) == AggregateHooks(<<>>, findHooks(files), version)

-----------------------------------------------------------------------------
(* The cross-version merge: run(), results.forEach *)

\* Maps are sequences in insertion order.  An arguments array is an object that a
\* Location and a history entry may share with the record they were created from:
\* argsObj names that object (the place of its record in results), and a mutation
\* through one holder shows through every holder.

TracksArguments(type) == type = ValueTransformer \/ type = AppEventTrigger

HookIndex(db, name) ==
    IF \E i \in 1..Len(db) : db[i].name = name
    THEN CHOOSE i \in 1..Len(db) : db[i].name = name
    ELSE 0

\* a lookup that never finds the Location
LocationIndex_NeverFound(locations, hook) == 0

\* hookData.locations.find((loc) => loc.version === hook.version && loc.file === hook.file)
LocationIndex(locations, hook) ==
    LET Hit(i) == locations[i].version = hook.version /\ locations[i].file = hook.file
    IN IF \E i \in 1..Len(locations) : Hit(i)
       THEN CHOOSE i \in 1..Len(locations) : Hit(i) /\ \A j \in 1..(i - 1) : ~Hit(j)
       ELSE 0

\* newArgs.forEach((arg) => { if (!existingArgs.has(arg)) { push; add } })
RECURSIVE PushNewArgs(_, _)
PushNewArgs(args, newArgs) ==
    IF newArgs = <<>> THEN args
    ELSE PushNewArgs(
            IF Head(newArgs) \in Range(args) THEN args ELSE Append(args, Head(newArgs)),
            Tail(newArgs))

\* the else branch of the location lookup: the arguments of an existing Location
\* after a record of the same version and file is merged into it
MergedLocationArguments(loc, hook) ==
    IF TracksArguments(hook.type)
    THEN SortTokens(PushNewArgs(loc.arguments, hook.arguments))
    ELSE loc.arguments

\* the find-or-create of the Location and the merge of lines and arguments
MergeLocation(hookData, hook, obj) ==
    LET li == LocationIndex(hookData.locations, hook)
    IN IF li = 0
       THEN [hookData EXCEPT !.locations =
                Append(@, [version |-> hook.version, file |-> hook.file,
                           lines |-> hook.lines, arguments |-> hook.arguments,
                           argsObj |-> obj])]
       ELSE LET loc == hookData.locations[li]
                newArgs == MergedLocationArguments(loc, hook)
            IN [hookData EXCEPT
                  !.locations[li].lines = MergeLines(@, hook.lines),
                  !.locations[li].arguments = newArgs,
                  !.argumentHistory =
                      [k \in 1..Len(@) |->
                          IF @[k].argsObj = loc.argsObj
                          THEN [@[k] EXCEPT !.arguments = newArgs]
                          ELSE @[k]]]

\* the provisional argument history: keyed by JSON.stringify(hook.arguments)
RecordArgumentHistory(hookData, hook, obj) ==
    LET history == hookData.argumentHistory
        Hit(k) == history[k].key = hook.arguments
        withEntry ==
            IF \E k \in 1..Len(history) : Hit(k) THEN history
            ELSE Append(history,
                        [key |-> hook.arguments, arguments |-> hook.arguments,
                         argsObj |-> obj, firstSeenVersion |-> hook.version,
                         versions |-> <<>>])
        at == CHOOSE k \in 1..Len(withEntry) : withEntry[k].key = hook.arguments
    IN [hookData EXCEPT
          !.argumentHistory = [withEntry EXCEPT ![at].versions = Append(@, hook.version)]]

\* if (!this.hooksDb.has(hook.name)) this.hooksDb.set(hook.name, {...})
EnsureHook(db, hook) ==
    IF HookIndex(db, hook.name) # 0 THEN db
    ELSE Append(db, [name |-> hook.name, type |-> hook.type,
                     firstVersion |-> hook.version,
                     locations |-> <<>>, argumentHistory |-> <<>>])

\* the body of hooks.forEach((hook) => {...}) for one record
MergeHook(db, hook, obj) ==
    LET db1 == EnsureHook(db, hook)
        hi == HookIndex(db1, hook.name)
    IN [db1 EXCEPT ![hi] = RecordArgumentHistory(MergeLocation(@, hook, obj), hook, obj)]

-----------------------------------------------------------------------------
(* The argument consolidator *)

\* Math.max(...lengths)
RECURSIVE MaxLen(_)
MaxLen(arrays) ==
    IF arrays = <<>> THEN 0
    ELSE LET m == MaxLen(Tail(arrays))
         IN IF Len(Head(arrays)) > m THEN Len(Head(arrays)) ELSE m

RECURSIVE MapArguments(_)
MapArguments(locs) ==
    IF locs = <<>> THEN <<>> ELSE <<Head(locs).arguments>> \o MapArguments(Tail(locs))

RECURSIVE MapAt(_, _)
MapAt(arrays, i) ==
    IF arrays = <<>> THEN <<>> ELSE <<Head(arrays)[i]>> \o MapAt(Tail(arrays), i)

\* consolidateArgumentsForVersion(hookData, version)
consolidateArgumentsForVersion(hookData, version) ==
    LET AtVersion(loc) == loc.version = version /\ Len(loc.arguments) > 0
        allArgumentArrays == MapArguments(SelectSeq(hookData.locations, AtVersion))
        maxArgLength == MaxLen(allArgumentArrays)
    IN [i \in 1..maxArgLength |->
          LET LongEnough(args) == i <= Len(args)
          IN chooseBestArgumentName(MapAt(SelectSeq(allArgumentArrays, LongEnough), i))]

\* new Set() filled by history.versions.forEach((version) => allVersions.add(version))
RECURSIVE AddAll(_, _)
AddAll(acc, vs) ==
    IF vs = <<>> THEN acc
    ELSE AddAll(IF Head(vs) \in Range(acc) THEN acc ELSE Append(acc, Head(vs)), Tail(vs))

RECURSIVE AllHistoryVersions(_, _)
AllHistoryVersions(acc, history) ==
    IF history = <<>> THEN acc
    ELSE AllHistoryVersions(AddAll(acc, Head(history).versions), Tail(history))

\* a consolidation that opens a history entry for every version
ConsolidateVersion_NeverGroups(consolidatedHistory, hookData, version) ==
    Append(consolidatedHistory,
           [key |-> <<version>>,
            arguments |-> consolidateArgumentsForVersion(hookData, version),
            argsObj |-> <<>>, firstSeenVersion |-> version, versions |-> <<version>>])

\* the body of Array.from(allVersions).forEach((version) => {...})
ConsolidateVersion(consolidatedHistory, hookData, version) ==
    LET consolidatedArgs == consolidateArgumentsForVersion(hookData, version)
        Hit(k) == consolidatedHistory[k].key = consolidatedArgs
        withEntry ==
            IF \E k \in 1..Len(consolidatedHistory) : Hit(k) THEN consolidatedHistory
            ELSE Append(consolidatedHistory,
                        [key |-> consolidatedArgs, arguments |-> consolidatedArgs,
                         argsObj |-> <<>>, firstSeenVersion |-> version,
                         versions |-> <<>>])
        at == CHOOSE k \in 1..Len(withEntry) : withEntry[k].key = consolidatedArgs
    IN IF version \in Range(withEntry[at].versions) THEN withEntry
       ELSE [withEntry EXCEPT ![at].versions = Append(@, version)]

RECURSIVE ConsolidateVersions(_, _, _)
ConsolidateVersions(consolidatedHistory, hookData, vs) ==
    IF vs = <<>> THEN consolidatedHistory
    ELSE ConsolidateVersions(ConsolidateVersion(consolidatedHistory, hookData, Head(vs)),
                             hookData, Tail(vs))

\* consolidateArgumentHistory: the body of this.hooksDb.forEach((hookData) => {...})
ConsolidateHook(hookData) ==
    IF ~TracksArguments(hookData.type) THEN hookData
    ELSE [hookData EXCEPT !.argumentHistory =
            ConsolidateVersions(<<>>, hookData,
                                AllHistoryVersions(<<>>, hookData.argumentHistory))]

\* consolidateArgumentHistory()
consolidateArgumentHistory(db) == [i \in 1..Len(db) |-> ConsolidateHook(db[i])]

-----------------------------------------------------------------------------
(* The report: generateReport() *)

NoReport == [written |-> FALSE]

\* undefined, the latest version of an index without any Location
NoVersion == <<>>

RECURSIVE MapHistory(_)
MapHistory(history) ==
    IF history = <<>> THEN <<>>
    ELSE <<[argumentSignature |-> Head(history).arguments,
            firstSeenVersion |-> Head(history).firstSeenVersion,
            versions |-> Head(history).versions,
            changeCount |-> Len(Head(history).versions)]>> \o MapHistory(Tail(history))

RECURSIVE MapLocations(_)
MapLocations(locs) ==
    IF locs = <<>> THEN <<>>
    ELSE <<[version |-> Head(locs).version, file |-> Head(locs).file,
            lines |-> Head(locs).lines, arguments |-> Head(locs).arguments]>>
         \o MapLocations(Tail(locs))

\* the element of hooks built from one hook of hooksDb
ReportHook(hook) ==
    LET argumentHistoryArray == MapHistory(hook.argumentHistory)
    IN [name |-> hook.name, type |-> hook.type, firstVersion |-> hook.firstVersion,
        locations |-> MapLocations(hook.locations),
        argumentHistory |-> argumentHistoryArray,
        hasArgumentChanges |-> Len(argumentHistoryArray) > 1,
        argumentChangeCount |-> Len(argumentHistoryArray) - 1]

RECURSIVE MapVersions(_)
MapVersions(locs) ==
    IF locs = <<>> THEN <<>> ELSE <<Head(locs).version>> \o MapVersions(Tail(locs))

RECURSIVE AllLocationVersions(_, _)
AllLocationVersions(acc, hooks) ==
    IF hooks = <<>> THEN acc
    ELSE AllLocationVersions(AddAll(acc, MapVersions(Head(hooks).locations)), Tail(hooks))

\* sortedVersions[sortedVersions.length - 1]
LatestVersion(hooks) ==
    LET sortedVersions == SortVersions(AllLocationVersions(<<>>, hooks))
    IN IF sortedVersions = <<>> THEN NoVersion ELSE sortedVersions[Len(sortedVersions)]

\* hook.locations.some((loc) => loc.version === latestVersion)
InVersion(hook, version) == \E i \in 1..Len(hook.locations) : hook.locations[i].version = version

\* counts by type that add the locations of a hook instead of the hook
CountByType_Locations(hooks) ==
    [t \in {hooks[i].type : i \in 1..Len(hooks)} |->
        SeqSum([i \in 1..Len(hooks) |->
                   IF hooks[i].type = t THEN Len(hooks[i].locations) ELSE 0])]

\* the counts by type: an object with a key for every type that occurs
CountByType(hooks) ==
    [t \in {hooks[i].type : i \in 1..Len(hooks)} |->
        Cardinality({i \in 1..Len(hooks) : hooks[i].type = t})]

\* .sort((a, b) => b.argumentChangeCount - a.argumentChangeCount)
RECURSIVE InsertByChanges(_, _)
InsertByChanges(s, x) ==
    IF s = <<>> THEN <<x>>
    ELSE IF Head(s).argumentChangeCount - x.argumentChangeCount < 0 THEN <<x>> \o s
         ELSE <<Head(s)>> \o InsertByChanges(Tail(s), x)

RECURSIVE SortByChanges(_)
SortByChanges(s) ==
    IF s = <<>> THEN <<>>
    ELSE InsertByChanges(SortByChanges(SubSeq(s, 1, Len(s) - 1)), s[Len(s)])

\* Array.prototype.slice(0, n)
Slice(s, n) == SubSeq(s, 1, Min2(n, Len(s)))

RECURSIVE MapMostChanges(_)
MapMostChanges(hs) ==
    IF hs = <<>> THEN <<>>
    ELSE <<[name |-> Head(hs).name, type |-> Head(hs).type,
            changes |-> Head(hs).argumentChangeCount]>> \o MapMostChanges(Tail(hs))

\* the first of the sorted versions instead of the last
LastSeenVersion_First(h) ==
    LET sorted == SortVersions(MapVersions(h.locations))
    IN IF sorted = <<>> THEN NoVersion ELSE sorted[1]

\* h.locations.map((loc) => loc.version).sort(compareVersions).pop()
LastSeenVersion(h) ==
    LET sorted == SortVersions(MapVersions(h.locations))
    IN IF sorted = <<>> THEN NoVersion ELSE sorted[Len(sorted)]

RECURSIVE MapRetired(_)
MapRetired(hs) ==
    IF hs = <<>> THEN <<>>
    ELSE <<[name |-> Head(hs).name, type |-> Head(hs).type,
            lastSeenVersion |-> LastSeenVersion(Head(hs))]>> \o MapRetired(Tail(hs))

RECURSIVE MapChangeCounts(_)
MapChangeCounts(hs) ==
    IF hs = <<>> THEN <<>>
    ELSE <<Head(hs).argumentChangeCount>> \o MapChangeCounts(Tail(hs))

\* generateReport(): the document written to hooks-report.json, without its
\* lastUpdated timestamp
generateReport(db) ==
    LET hooks == [i \in 1..Len(db) |-> ReportHook(db[i])]
        latestVersion == LatestVersion(hooks)
        InLatest(h) == InVersion(h, latestVersion)
        NotInLatest(h) == ~InVersion(h, latestVersion)
        Changed(h) == h.hasArgumentChanges
        HasChanges(h) == h.argumentChangeCount > 0
        hooksInLatestVersion == SelectSeq(hooks, InLatest)
        retiredHooks == SelectSeq(hooks, NotInLatest)
    IN [written |-> TRUE,
        totalHooks |-> Len(db),
        hooksByType |-> CountByType(db),
        hooksWithArgumentChanges |-> Len(SelectSeq(hooksInLatestVersion, Changed)),
        latestVersion |-> latestVersion,
        hooksInLatestVersion |-> Len(hooksInLatestVersion),
        latestVersionHooksByType |-> CountByType(hooksInLatestVersion),
        retiredHooks |-> Len(retiredHooks),
        hooks |-> hooks,
        summary |->
            [totalArgumentChanges |-> SeqSum(MapChangeCounts(hooksInLatestVersion)),
             hooksWithMostChanges |->
                MapMostChanges(Slice(SortByChanges(SelectSeq(hooksInLatestVersion, HasChanges)),
                                     MostChangesLimit)),
             retiredHooksList |-> MapRetired(Slice(retiredHooks, RetiredListLimit))]]

-----------------------------------------------------------------------------
(* The source trees of the upstream repository *)

File(file, sites) == [file |-> file, sites |-> sites]

TreeEmpty == <<>>

\* x is called with (topic, user) in one file and with (topic) in another
TreeTwoFiles ==
    <<File("a.js", <<Site("x", ValueTransformer, 3, 1, TRUE, <<tTopic, tUser>>)>>),
      File("b.js", <<Site("x", ValueTransformer, 7, 2, TRUE, <<tTopic>>)>>)>>

\* x is called with (topic) and then with (topic, user) in one file
TreeOneFile ==
    <<File("a.js", <<Site("x", ValueTransformer, 2, 1, TRUE, <<tTopic>>),
                     Site("x", ValueTransformer, 5, 1, TRUE, <<tTopic, tUser>>)>>)>>

\* x is called with (topic, currentUser)
TreeChanged ==
    <<File("a.js", <<Site("x", ValueTransformer, 3, 1, FALSE, <<tTopic, tCurrentUser>>)>>)>>

\* the outlet topic-footer is placed in two files, with different outletArgs
TreeOutlet ==
    <<File("a.js", <<Site("topic-footer", PluginOutlet, 4, 1, TRUE, <<tModel>>)>>),
      File("b.js", <<Site("topic-footer", PluginOutlet, 9, 2, TRUE, <<tModel, tUser>>)>>)>>

\* match[2] of appEvents.trigger("x", this.post, post.url()): [^)]* ends the text
\* before the first ")"
textThisPostUrl ==
    <<",", " ", "t", "h", "i", "s", ".", "p", "o", "s", "t", ",", " ",
      "p", "o", "s", "t", ".", "u", "r", "l", "(">>

\* match[2] of applyValueTransformer("x", "draft", {id})
textDraftId ==
    <<",", " ", "\"", "d", "r", "a", "f", "t", "\"", ",", " ", "{", "i", "d", "}">>

\* an app event and a value transformer share the name x in one file
TreeCollide ==
    <<File("a.js", <<Site("x", AppEventTrigger, 1, 1, TRUE, parseAppEventArgs(textThisPostUrl)),
                     Site("x", ValueTransformer, 6, 1, TRUE, <<tTopic>>)>>)>>

\* a behavior transformer y applied in two files, and x called with a literal and
\* an object
TreeBehavior ==
    <<File("a.js", <<Site("y", BehaviorTransformer, 2, 3, TRUE, <<tTopic>>),
                     Site("x", ValueTransformer, 8, 1, TRUE, parseArguments(textDraftId))>>),
      File("b.js", <<Site("y", BehaviorTransformer, 5, 1, TRUE, <<tUser>>)>>)>>

\* the outlet topic-footer is placed by the helper on line 2 and by the component
\* on lines 5 and 6 of one file
TreeHelper ==
    <<File("a.js", <<Site("topic-footer", PluginOutletHelper, 2, 1, TRUE, <<tModel>>),
                     Site("topic-footer", PluginOutlet, 5, 2, TRUE, <<tModel, tUser>>)>>)>>

AllVersions == Tags \cup {Main}

\* the histories of the upstream repository the model runs on: the tree of each version
Scenarios ==
    { [v \in AllVersions |->
          IF v = V1100 THEN TreeChanged ELSE TreeTwoFiles],
      [v \in AllVersions |->
          IF v = V200 THEN TreeChanged ELSE IF v = Main THEN TreeEmpty ELSE TreeOneFile],
      [v \in AllVersions |->
          IF v = Main THEN TreeBehavior
          ELSE IF v = V200 THEN TreeEmpty
          ELSE IF v = V201 THEN TreeHelper ELSE TreeOutlet],
      [v \in AllVersions |->
          IF v = V1100 THEN TreeBehavior ELSE IF v = V200 THEN TreeOutlet ELSE TreeCollide] }

\* the trees a snapshot directory may hold: the tree of a version, or the part of
\* it that the archive commands extracted before one failed
Trees ==
    UNION {{SubSeq(t[v], 1, k) : k \in 0..Len(t[v])} : t \in Scenarios, v \in AllVersions}

\* WorkerHooks, tabulated over the contents of a snapshot and the versions
PostedHooks ==
    [files \in Trees |-> [v \in AllVersions |-> WorkerHooks(files, v)]]

-----------------------------------------------------------------------------
(* The work directory: processVersion, snapshot provisioning *)

\* a snapshot directory: whether it exists, the files it holds, and whether every
\* archive command that filled it succeeded
NoSnapshot == [exists |-> FALSE, files |-> <<>>, complete |-> FALSE]

Snapshot(files) == [exists |-> TRUE, files |-> files, complete |-> TRUE]

\* the directory mkdirSync made and a failing export left empty or partly filled
PartialSnapshot(files) == [exists |-> TRUE, files |-> files, complete |-> FALSE]

\* if (version === "main") execSync(`rm -rf ${versionDir}`)
Removed(dir, version) == IF version = Main THEN NoSnapshot ELSE dir

\* an existence test that always sends the worker into the export
NeedsExport_Always(dir) == TRUE

\* if (!fs.existsSync(versionDir))
NeedsExport(dir) == ~dir.exists

\* the snapshot directory of a version after provisioning: mkdir and git archive of
\* the upstream tree when the directory does not exist (any more)
Provision(dir, version, upstream) ==
    IF NeedsExport(Removed(dir, version)) THEN Snapshot(upstream) ELSE Removed(dir, version)

\* what the directory holds when archive commands fail (the ref is not found, git
\* or tar ends with an error): the errors are swallowed by `|| true` and the empty
\* catch, and a part of the tree is missing
FailedExports(upstream) == {SubSeq(upstream, 1, k) : k \in 0..(Len(upstream) - 1)}

\* the directory a throwing provisioning leaves: rm -rf or mkdirSync failed
FailedProvisions(dir, version) ==
    IF version = Main /\ dir.exists THEN {dir, NoSnapshot}
    ELSE IF ~dir.exists THEN {dir}
    ELSE {}


-----------------------------------------------------------------------------
(* The scheduler: processVersionsInParallel *)

\* Math.min(os.cpus().length, versions.length, 10)
MaxWorkersOf(n, count) == Min2(Min2(n, count), WorkerLimit)

\* a createWorker that passes over a version when two are left
createWorker_SkipsOne(st, count) ==
    IF st.versionIndex >= count THEN st
    ELSE [versionIndex |-> Min2(st.versionIndex + 2, count),
          workers |-> Append(st.workers, Min2(st.versionIndex + 2, count)),
          wstate |-> [st.wstate EXCEPT ![Min2(st.versionIndex + 2, count)] = "running"]]

\* a createWorker that reads versions[versionIndex] without advancing the index
createWorker_SameVersion(st, count) ==
    IF st.versionIndex >= count THEN st
    ELSE [versionIndex |-> st.versionIndex,
          workers |-> Append(st.workers, st.versionIndex + 1),
          wstate |-> [st.wstate EXCEPT ![st.versionIndex + 1] = "running"]]

\* createWorker(): bind a new worker to the next unclaimed version, if any
createWorker(st, count) ==
    IF st.versionIndex >= count THEN st
    ELSE [versionIndex |-> st.versionIndex + 1,
          workers |-> Append(st.workers, st.versionIndex + 1),
          wstate |-> [st.wstate EXCEPT ![st.versionIndex + 1] = "running"]]

\* a loop that starts a worker for every version, whatever the cap
InitialBatchSize_Uncapped(limit, count) == count

\* for (let i = 0; i < maxWorkers && i < versions.length; i++) createWorker()
InitialBatchSize(limit, count) == Min2(limit, count)

RECURSIVE CreateWorkers(_, _, _)
CreateWorkers(st, count, k) ==
    IF k = 0 THEN st ELSE CreateWorkers(createWorker(st, count), count, k - 1)

\* a test that resolves one report early
AllCompleted_OneEarly(done, count) == done >= count - 1

\* completed === versions.length
AllCompleted(done, count) == done = count

\* data.hooks && data.timing
IsResultMessage(data) == data.hasHooks /\ data.hasTiming

\* parentPort.postMessage({ hooks, timing })
ResultMessage(hooks) == [hasHooks |-> TRUE, hasTiming |-> TRUE, hooks |-> hooks]

\* parentPort.postMessage([])
FailureMessage == [hasHooks |-> FALSE, hasTiming |-> FALSE, hooks |-> <<>>]

NoMessage == [hasHooks |-> FALSE, hasTiming |-> FALSE, hooks |-> <<>>, none |-> TRUE]

\* the first record at or after <<ri, hi>> in results; <<Len(results) + 1, 1>> at the end
RECURSIVE NextRecord(_, _, _)
NextRecord(rs, ri, hi) ==
    IF ri > Len(rs) THEN <<ri, 1>>
    ELSE IF hi > Len(rs[ri]) THEN NextRecord(rs, ri + 1, 1)
    ELSE <<ri, hi>>

-----------------------------------------------------------------------------
(* The state machine *)

\* the process has not ended / has ended with the given exit code
NoExit == [ended |-> FALSE, code |-> 0]

\* no parser has run
NoParse == [by |-> "none", tokens |-> <<>>]

Exited(code) == [ended |-> TRUE, code |-> code]

\* the version indexes whose worker exists and has not been terminated
LiveWorkers == {i \in 1..Len(wstate) : wstate[i] \in {"running", "posted", "crashed"}}

\* a run that goes on to the scheduler whatever the catalog holds
AfterCatalog_NoReturn(count) == "await"

\* if (versions.length === 0) return; else on to processVersionsInParallel
AfterCatalog(count) == IF count = 0 THEN "exit" ELSE "await"

\* the state of a process that has just started
Started ==
    /\ pc = "start"
    /\ versions = <<>>
    /\ maxWorkers = 0
    /\ results = <<>>
    /\ completed = 0
    /\ versionIndex = 0
    /\ workers = <<>>
    /\ wstate = <<>>
    /\ inbox = <<>>
    /\ hooksDb = <<>>
    /\ cursor = <<1, 1>>
    /\ report = NoReport
    /\ exports = {}
    /\ readFailed = <<>>
    /\ exitCode = NoExit

\* the first run, on an empty work directory
Init ==
    /\ Started
    /\ cpus \in 1..MaxCpus
    /\ tree \in Scenarios
    /\ snapshots = [v \in AllVersions |-> NoSnapshot]
    /\ runNo = 1
    /\ cmpArgs = <<>>
    /\ cmpOut = <<>>
    /\ callArgs = <<>>
    /\ parsed = NoParse

\* run(): setupWorkDirectory throws (git clone or git fetch fails), the promise of
\* run() rejects and the main entry logs the error
RunSetupFails ==
    /\ pc = "start"
    /\ pc' = "rejected"
    /\ UNCHANGED <<cpus, tree, versions, maxWorkers, schedVars, hooksDb, cursor, report,
                   diskVars, readFailed, exitCode, runNo, pureVars>>

\* run(): getDiscourseVersions fails and returns [], run returns
RunNoVersions ==
    /\ pc = "start"
    /\ versions' = <<>>
    /\ pc' = AfterCatalog(Len(versions'))
    /\ UNCHANGED <<cpus, tree, maxWorkers, schedVars, hooksDb, cursor, report,
                   diskVars, readFailed, exitCode, runNo, pureVars>>

\* run() up to the await of processVersionsInParallel, for a tag list out of tagSets:
\* the catalog is read, the cap is computed and the initial batch of workers is started
RunStartOn(tagSets) ==
    /\ pc = "start"
    /\ \E tags \in tagSets :
          LET vs == CatalogOf(tags)
              count == Len(vs)
              limit == MaxWorkersOf(cpus, count)
              st == CreateWorkers([versionIndex |-> 0, workers |-> <<>>,
                                   wstate |-> [i \in 1..count |-> "unclaimed"]],
                                  count, InitialBatchSize(limit, count))
          IN /\ versions' = vs
             /\ maxWorkers' = limit
             /\ versionIndex' = st.versionIndex
             /\ workers' = st.workers
             /\ wstate' = st.wstate
             /\ inbox' = [i \in 1..count |-> NoMessage]
             /\ readFailed' = [i \in 1..count |-> 0]
             /\ pc' = AfterCatalog(count)
    /\ UNCHANGED <<cpus, tree, results, completed, hooksDb, cursor, report, diskVars,
                   exitCode, runNo, pureVars>>

RunStart == RunStartOn({tags \in SUBSET Tags : Cardinality(tags) <= MaxTags})

\* processVersion() of the worker of version index i runs to its
\* postMessage({hooks, timing}): it provisions the snapshot and analyses it
WorkerPostHooks(i) ==
    /\ wstate[i] = "running"
    /\ LET v == versions[i]
           dir == Provision(snapshots[v], v, tree[v])
       IN /\ snapshots' = [snapshots EXCEPT ![v] = dir]
          /\ exports' = IF NeedsExport(Removed(snapshots[v], v)) THEN exports \cup {v}
                        ELSE exports
          /\ inbox' = [inbox EXCEPT ![i] = ResultMessage(PostedHooks[dir.files][v])]
    /\ wstate' = [wstate EXCEPT ![i] = "posted"]
    /\ UNCHANGED <<pc, cpus, tree, versions, maxWorkers, results, completed, versionIndex,
                   workers, hooksDb, cursor, report, readFailed, exitCode, runNo, pureVars>>

\* processVersion() runs to its postMessage({hooks, timing}) although archive
\* commands of its export failed: it made the directory, left it with a part of
\* the tree and analysed that part
WorkerExportFails(i) ==
    /\ wstate[i] = "running"
    /\ LET v == versions[i]
       IN /\ NeedsExport(Removed(snapshots[v], v))
          /\ \E files \in FailedExports(tree[v]) :
                /\ snapshots' = [snapshots EXCEPT ![v] = PartialSnapshot(files)]
                /\ inbox' = [inbox EXCEPT ![i] = ResultMessage(PostedHooks[files][v])]
    /\ wstate' = [wstate EXCEPT ![i] = "posted"]
    /\ UNCHANGED <<pc, cpus, tree, versions, maxWorkers, results, completed, versionIndex,
                   workers, hooksDb, cursor, report, exports, readFailed, exitCode, runNo,
                   pureVars>>

\* processVersion() throws while it provisions (rm -rf or mkdirSync fails): the
\* catch posts []
WorkerPostFailure(i) ==
    /\ wstate[i] = "running"
    /\ \E left \in FailedProvisions(snapshots[versions[i]], versions[i]) :
          snapshots' = [snapshots EXCEPT ![versions[i]] = left]
    /\ wstate' = [wstate EXCEPT ![i] = "posted"]
    /\ inbox' = [inbox EXCEPT ![i] = FailureMessage]
    /\ UNCHANGED <<pc, cpus, tree, versions, maxWorkers, results, completed, versionIndex,
                   workers, hooksDb, cursor, report, exports, readFailed, exitCode, runNo,
                   pureVars>>

\* processVersion() provisions the snapshot, and fs.readFileSync throws on a file
\* of the walk of findHooks: nothing catches it before the catch of processVersion,
\* which posts []
WorkerReadFailure(i) ==
    /\ wstate[i] = "running"
    /\ LET v == versions[i]
           dir == Provision(snapshots[v], v, tree[v])
       IN /\ snapshots' = [snapshots EXCEPT ![v] = dir]
          /\ exports' = IF NeedsExport(Removed(snapshots[v], v)) THEN exports \cup {v}
                        ELSE exports
          /\ \E k \in 1..Len(dir.files) : readFailed' = [readFailed EXCEPT ![i] = k]
    /\ wstate' = [wstate EXCEPT ![i] = "posted"]
    /\ inbox' = [inbox EXCEPT ![i] = FailureMessage]
    /\ UNCHANGED <<pc, cpus, tree, versions, maxWorkers, results, completed, versionIndex,
                   workers, hooksDb, cursor, report, exitCode, runNo, pureVars>>

\* the worker thread dies of an uncaught error: its 'error' event is pending
WorkerCrash(i) ==
    /\ wstate[i] = "running"
    /\ wstate' = [wstate EXCEPT ![i] = "crashed"]
    /\ UNCHANGED <<pc, cpus, tree, versions, maxWorkers, results, completed, versionIndex,
                   workers, inbox, hooksDb, cursor, report, diskVars, readFailed, exitCode,
                   runNo, pureVars>>

\* the tail shared by both handlers: terminate the worker, drop it from workers,
\* then resolve or start the next version
AfterReport(i, done) ==
    LET st0 == [versionIndex |-> versionIndex,
                workers |-> RemoveAt(workers, IndexOf(workers, i)),
                wstate |-> [wstate EXCEPT ![i] = "terminated"]]
        st == IF AllCompleted(done, Len(versions)) THEN st0
              ELSE createWorker(st0, Len(versions))
    IN /\ completed' = done
       /\ versionIndex' = st.versionIndex
       /\ workers' = st.workers
       /\ wstate' = st.wstate
       /\ pc' = IF AllCompleted(done, Len(versions)) /\ pc = "await" THEN "merge" ELSE pc

\* worker.on("message", (data) => {...}).  A handler runs when the main thread is
\* idle: while run() awaits the scheduler, or after run() has returned; the code
\* after the await (merge, consolidation, report) runs without yielding.
OnMessage(i) ==
    /\ pc \in {"await", "done"}
    /\ i \in 1..Len(wstate)
    /\ wstate[i] = "posted"
    /\ LET data == inbox[i]
       IN /\ results' = IF IsResultMessage(data) THEN Append(results, data.hooks) ELSE results
          /\ AfterReport(i, IF IsResultMessage(data) THEN completed + 1 ELSE completed)
    /\ inbox' = [inbox EXCEPT ![i] = NoMessage]
    /\ UNCHANGED <<cpus, tree, versions, maxWorkers, hooksDb, cursor, report, diskVars,
                   readFailed, exitCode, runNo, pureVars>>

\* worker.on("error", (error) => {...})
OnError(i) ==
    /\ pc \in {"await", "done"}
    /\ i \in 1..Len(wstate)
    /\ wstate[i] = "crashed"
    /\ AfterReport(i, completed + 1)
    /\ UNCHANGED <<cpus, tree, versions, maxWorkers, results, inbox, hooksDb, cursor, report,
                   diskVars, readFailed, exitCode, runNo, pureVars>>

\* run(), after the await: one iteration of hooks.forEach in results.forEach
MergeStep ==
    /\ pc = "merge"
    /\ LET at == NextRecord(results, cursor[1], cursor[2])
       IN /\ at[1] <= Len(results)
          /\ hooksDb' = MergeHook(hooksDb, results[at[1]][at[2]], at)
          /\ cursor' = <<at[1], at[2] + 1>>
    /\ UNCHANGED <<pc, cpus, tree, versions, maxWorkers, schedVars, report, diskVars,
                   readFailed, exitCode, runNo, pureVars>>

\* the merge loops are over: this.consolidateArgumentHistory()
Consolidate ==
    /\ pc = "merge"
    /\ NextRecord(results, cursor[1], cursor[2])[1] > Len(results)
    /\ hooksDb' = consolidateArgumentHistory(hooksDb)
    /\ pc' = "report"
    /\ UNCHANGED <<cpus, tree, versions, maxWorkers, schedVars, cursor, report, diskVars,
                   readFailed, exitCode, runNo, pureVars>>

\* await this.generateReport()
GenerateReport ==
    /\ pc = "report"
    /\ report' = generateReport(hooksDb)
    /\ pc' = "done"
    /\ UNCHANGED <<cpus, tree, versions, maxWorkers, schedVars, hooksDb, cursor, diskVars,
                   readFailed, exitCode, runNo, pureVars>>

\* the process ends once nothing is pending: run() has returned or rejected (the
\* main entry only logs a rejection), or it awaits a promise that no live worker
\* is left to resolve.  Nothing in the program sets another exit code than 0.
ProcessExit ==
    /\ ~exitCode.ended
    /\ pc \in {"exit", "rejected", "done", "await"}
    /\ LiveWorkers = {}
    /\ exitCode' = Exited(0)
    /\ UNCHANGED <<pc, cpus, tree, versions, maxWorkers, schedVars, hooksDb, cursor, report,
                   diskVars, readFailed, runNo, pureVars>>

\* the tool is run again on the same work directory, after the upstream repository
\* has moved on
RunAgain ==
    /\ exitCode.ended
    /\ runNo < MaxRuns
    /\ runNo' = runNo + 1
    /\ tree' \in Scenarios
    /\ pc' = "start"
    /\ versions' = <<>>
    /\ maxWorkers' = 0
    /\ results' = <<>>
    /\ completed' = 0
    /\ versionIndex' = 0
    /\ workers' = <<>>
    /\ wstate' = <<>>
    /\ inbox' = <<>>
    /\ hooksDb' = <<>>
    /\ cursor' = <<1, 1>>
    /\ report' = NoReport
    /\ exports' = {}
    /\ readFailed' = <<>>
    /\ exitCode' = NoExit
    /\ UNCHANGED <<cpus, snapshots, pureVars>>

\* the handlers of the worker events
Handlers ==
    \/ \E i \in 1..Len(wstate) : OnMessage(i)
    \/ \E i \in 1..Len(wstate) : OnError(i)

\* the worker threads
Workers ==
    \/ \E i \in 1..Len(wstate) : WorkerPostHooks(i)
    \/ \E i \in 1..Len(wstate) : WorkerPostFailure(i)
    \/ \E i \in 1..Len(wstate) : WorkerReadFailure(i)
    \/ \E i \in 1..Len(wstate) : WorkerCrash(i)

Next ==
    \/ RunSetupFails
    \/ RunNoVersions
    \/ RunStart
    \/ Handlers
    \/ Workers
    \/ MergeStep
    \/ Consolidate
    \/ GenerateReport
    \/ ProcessExit

Spec == Init /\ [][Next]_vars

\* the operating system runs every worker thread to its end and the event loop
\* runs every pending handler (the code after the await is straight-line and needs
\* no fairness for the properties about the scheduler)
FairSpec == Spec /\ WF_vars(Workers) /\ WF_vars(Handlers)

\* the tag lists of the runs that are repeated on one work directory
RerunTagSets == {{}, {V120}}

RerunStart == RunStartOn(RerunTagSets)

RerunNext ==
    \/ RunSetupFails
    \/ RunNoVersions
    \/ RerunStart
    \/ Handlers
    \/ Workers
    \/ MergeStep
    \/ Consolidate
    \/ GenerateReport
    \/ ProcessExit
    \/ RunAgain

\* the runs of the tool on one work directory, one after the other
RerunSpec == Init /\ [][RerunNext]_vars

\* the same runs with exports that may fail
ExportNext ==
    \/ RerunNext
    \/ \E i \in 1..Len(wstate) : WorkerExportFails(i)

ExportSpec == Init /\ [][ExportNext]_vars

\* the versions compareVersions is applied to: major, minor and patch numbers of
\* one and of two digits, and main
Parts == {2, 9, 10}

ComparedVersions == {Main} \cup {<<a, b, c>> : a \in Parts, b \in Parts, c \in Parts}

CompareInit ==
    /\ pc = "compare"
    /\ cmpArgs \in ComparedVersions \X ComparedVersions \X ComparedVersions
    /\ cmpOut = <<>>
    /\ callArgs = <<>>
    /\ parsed = NoParse
    /\ cpus = 1
    /\ tree = [v \in AllVersions |-> TreeEmpty]
    /\ versions = <<>>
    /\ maxWorkers = 0
    /\ results = <<>>
    /\ completed = 0
    /\ versionIndex = 0
    /\ workers = <<>>
    /\ wstate = <<>>
    /\ inbox = <<>>
    /\ hooksDb = <<>>
    /\ cursor = <<1, 1>>
    /\ report = NoReport
    /\ snapshots = [v \in AllVersions |-> NoSnapshot]
    /\ exports = {}
    /\ readFailed = <<>>
    /\ exitCode = NoExit
    /\ runNo = 1

\* this.compareVersions(a, b) on the tags of the operands, in the orders a total
\* order is about
Compare ==
    /\ pc = "compare"
    /\ LET a == TagText(cmpArgs[1])
           b == TagText(cmpArgs[2])
           c == TagText(cmpArgs[3])
       IN cmpOut' = [ab |-> compareTags(a, b), ba |-> compareTags(b, a),
                     bc |-> compareTags(b, c), ac |-> compareTags(a, c),
                     aa |-> compareTags(a, a)]
    /\ pc' = "compared"
    /\ UNCHANGED <<cpus, tree, versions, maxWorkers, schedVars, hooksDb, cursor, report,
                   diskVars, readFailed, exitCode, runNo, cmpArgs, callArgs, parsed>>

CompareNext == Compare

CompareSpec == CompareInit /\ [][CompareNext]_vars

-----------------------------------------------------------------------------
(* The parsers on their own, applied to the argument text of one call *)

\* the largest number of arguments of a call
MaxArgs == 2

\* the arguments calls are written with: names, string literals (one with a comma
\* inside), object literals with the keys a and b in both orders, an array, a
\* number, a boolean, null, and the handlebars forms normalizeArgument rewrites.
\* None holds a ")": the patterns of findMultiLineHooks capture [^)]*.
\* topic
aTopic == <<"t", "o", "p", "i", "c">>
\* model
aModel == <<"m", "o", "d", "e", "l">>
\* "a,b"
aStringAB == <<"\"", "a", ",", "b", "\"">>
\* 'c'
aStringC == <<"'", "c", "'">>
\* {b: 1, a: 2}
aMapBA == <<"{", "b", ":", " ", "1", ",", " ", "a", ":", " ", "2", "}">>
\* {a: 3, b: 4}
aMapAB == <<"{", "a", ":", " ", "3", ",", " ", "b", ":", " ", "4", "}">>
\* [1,2]
aArray == <<"[", "1", ",", "2", "]">>
\* 42
aNumber == <<"4", "2">>
\* true
aTrue == <<"t", "r", "u", "e">>
\* null
aNull == <<"n", "u", "l", "l">>
\* {{hash a=@b c=d}}
aHash == <<"{", "{", "h", "a", "s", "h", " ", "a", "=", "@", "b", " ", "c", "=", "d", "}", "}">>
\* {{@topic}}
aMustache == <<"{", "{", "@", "t", "o", "p", "i", "c", "}", "}">>
\* @a="x"
aAttr == <<"@", "a", "=", "\"", "x", "\"">>

ArgSources == {aTopic, aModel, aStringAB, aStringC, aMapBA, aMapAB, aArray,
               aNumber, aTrue, aNull, aHash, aMustache, aAttr}

\* match[2] of the patterns of findMultiLineHooks for a call written with these
\* arguments after the hook name: f("name", a, b) gives ", a, b"
ArgumentText(arguments) ==
    IF arguments = <<>> THEN <<>>
    ELSE <<",", " ">> \o Join(arguments, <<",", " ">>)

ParseInit ==
    /\ pc = "parse"
    /\ callArgs \in UNION {[1..n -> ArgSources] : n \in 0..MaxArgs}
    /\ parsed = NoParse
    /\ cmpArgs = <<>>
    /\ cmpOut = <<>>
    /\ cpus = 1
    /\ tree = [v \in AllVersions |-> TreeEmpty]
    /\ versions = <<>>
    /\ maxWorkers = 0
    /\ results = <<>>
    /\ completed = 0
    /\ versionIndex = 0
    /\ workers = <<>>
    /\ wstate = <<>>
    /\ inbox = <<>>
    /\ hooksDb = <<>>
    /\ cursor = <<1, 1>>
    /\ report = NoReport
    /\ snapshots = [v \in AllVersions |-> NoSnapshot]
    /\ exports = {}
    /\ readFailed = <<>>
    /\ exitCode = NoExit
    /\ runNo = 1

\* const args = this.parseArguments(match[2]) for a value transformer call
ParseValueTransformerCall ==
    /\ pc = "parse"
    /\ parsed' = [by |-> "parseArguments", tokens |-> parseArguments(ArgumentText(callArgs))]
    /\ pc' = "parsed"
    /\ UNCHANGED <<cpus, tree, versions, maxWorkers, schedVars, hooksDb, cursor, report,
                   diskVars, readFailed, exitCode, runNo, cmpArgs, cmpOut, callArgs>>

\* const args = this.parseAppEventArgs(match[2]) for an appEvents.trigger call
ParseAppEventCall ==
    /\ pc = "parse"
    /\ parsed' = [by |-> "parseAppEventArgs",
                  tokens |-> parseAppEventArgs(ArgumentText(callArgs))]
    /\ pc' = "parsed"
    /\ UNCHANGED <<cpus, tree, versions, maxWorkers, schedVars, hooksDb, cursor, report,
                   diskVars, readFailed, exitCode, runNo, cmpArgs, cmpOut, callArgs>>

ParseNext == ParseValueTransformerCall \/ ParseAppEventCall

ParseSpec == ParseInit /\ [][ParseNext]_vars

-----------------------------------------------------------------------------
(* Vocabulary of the properties *)

\* every version of the catalog was claimed and its worker has reported and is gone
AllReported ==
    /\ versions # <<>>
    /\ \A i \in 1..Len(wstate) : wstate[i] = "terminated"

\* the promise of processVersionsInParallel is resolved
Resolved == pc \in {"merge", "report", "done"}

\* the merge loops and the consolidation are over
Consolidated == pc \in {"report", "done"}

\* hooksDb as a set of hooks
Hooks == Range(hooksDb)

\* the worker of version v posted its hooks and they are part of results
Scanned(v) ==
    \E i \in 1..Len(versions) : versions[i] = v /\ wstate[i] = "terminated"
        /\ \E r \in 1..Len(results) : results[r] = WorkerHooks(tree[v], v)

-----------------------------------------------------------------------------
(* C1 *)

\* worker i is about to report a failure: its catch posted [], or it crashed
FailedWorker(i) ==
    \/ wstate[i] = "crashed"
    \/ wstate[i] = "posted" /\ inbox[i] = FailureMessage

\* C1: when the main thread handles the failure of a worker (the [] message of
\* the worker's catch, or its 'error' event), completed goes up by one, results
\* gains nothing, and every sibling worker stays as it is.
C1_FailureCountsAsCompleted ==
    [][\A i \in 1..Len(wstate) :
          (FailedWorker(i) /\ wstate'[i] = "terminated")
          => /\ completed' = completed + 1
             /\ results' = results
             /\ \A j \in LiveWorkers \ {i} : wstate'[j] = wstate[j]]_vars

-----------------------------------------------------------------------------
(* C2 *)

\* C2: once the scheduler has started on a non-empty version list, its promise
\* eventually resolves, whatever succeeds or fails per version, so that the run
\* goes on to merge, consolidate and write the report.
C2_SchedulerResolves == (pc = "await") ~> Resolved

-----------------------------------------------------------------------------
(* C3 *)

\* C3: at every moment the number of live workers (and the length of the workers
\* array) is at most min(cpus, number of versions, 10).
C3_LiveWorkersWithinCap ==
    /\ Cardinality(LiveWorkers) <= Min2(Min2(cpus, Len(versions)), WorkerLimit)
    /\ Len(workers) = Cardinality(LiveWorkers)

\* the cap is below the number of versions, it is reached, and a worker has
\* already been replaced by the worker of a later version
C3_Witness ==
    /\ pc = "await"
    /\ cpus < Len(versions)
    /\ Cardinality(LiveWorkers) = cpus
    /\ versionIndex > cpus
    /\ completed >= 1

-----------------------------------------------------------------------------
(* C4 *)

\* C4: the scheduler has resolved only if every version was claimed and its worker
\* has reported and is terminated, and hooksDb changes only in such states.
C4_ResolveAfterAllReported ==
    /\ [](Resolved => AllReported /\ workers = <<>> /\ completed = Len(versions))
    /\ [][hooksDb' # hooksDb => AllReported /\ LiveWorkers = {}]_vars

\* the merge is under way on the results of several versions, one of them failed
C4_Witness ==
    /\ pc = "merge"
    /\ hooksDb # <<>>
    /\ Len(versions) >= 3
    /\ Len(results) < Len(versions)
    /\ Len(results) >= 2
    /\ AllReported

-----------------------------------------------------------------------------
(* C5 *)

\* the results in catalog order, whatever order they arrived in
CanonicalResults ==
    LET Arrived(i) == \E r \in 1..Len(results) :
                        results[r] # <<>> /\ results[r][1].version = versions[i]
        ResultOf(i) == results[CHOOSE r \in 1..Len(results) :
                                 results[r] # <<>> /\ results[r][1].version = versions[i]]
        F[i \in 0..Len(versions)] ==
            IF i = 0 THEN <<>>
            ELSE IF Arrived(i) THEN Append(F[i - 1], ResultOf(i)) ELSE F[i - 1]
    IN F[Len(versions)]

RECURSIVE MergeResults(_, _, _)
MergeResults(db, rs, at) ==
    LET next == NextRecord(rs, at[1], at[2])
    IN IF next[1] > Len(rs) THEN db
       ELSE MergeResults(MergeHook(db, rs[next[1]][next[2]], next), rs,
                         <<next[1], next[2] + 1>>)

\* the artifact the run writes when the results arrive in the order rs
ArtifactOf(rs) ==
    generateReport(consolidateArgumentHistory(MergeResults(<<>>, rs, <<1, 1>>)))

\* the content of a hook of the artifact, without the order of its lists
HookContent(h) ==
    [name |-> h.name, type |-> h.type, firstVersion |-> h.firstVersion,
     locations |-> Range(h.locations),
     argumentHistory |->
        {[argumentSignature |-> e.argumentSignature,
          firstSeenVersion |-> e.firstSeenVersion,
          versions |-> Range(e.versions),
          changeCount |-> e.changeCount] : e \in Range(h.argumentHistory)},
     hasArgumentChanges |-> h.hasArgumentChanges,
     argumentChangeCount |-> h.argumentChangeCount]

\* the content of an artifact, without the order of its lists
Content(r) ==
    [totalHooks |-> r.totalHooks,
     hooksByType |-> r.hooksByType,
     hooksWithArgumentChanges |-> r.hooksWithArgumentChanges,
     latestVersion |-> r.latestVersion,
     hooksInLatestVersion |-> r.hooksInLatestVersion,
     latestVersionHooksByType |-> r.latestVersionHooksByType,
     retiredHooks |-> r.retiredHooks,
     hooks |-> {HookContent(h) : h \in Range(r.hooks)},
     totalArgumentChanges |-> r.summary.totalArgumentChanges,
     hooksWithMostChanges |-> Range(r.summary.hooksWithMostChanges),
     retiredHooksList |-> Range(r.summary.retiredHooksList)]

\* C5: the content of the written artifact is the content the same set of worker
\* results gives when it arrives in catalog order, so it is the same for every
\* arrival order.
C5_ArtifactIndependentOfArrivalOrder ==
    pc = "done" => Content(report) = Content(ArtifactOf(CanonicalResults))

-----------------------------------------------------------------------------
(* C6 *)

\* C6: after the merge, the firstVersion of every hook is the least version of
\* its Locations.
C6_FirstVersionIsMinimum ==
    Consolidated =>
        \A h \in Hooks :
            /\ \E k \in 1..Len(h.locations) : h.locations[k].version = h.firstVersion
            /\ \A k \in 1..Len(h.locations) :
                  compareVersions(h.firstVersion, h.locations[k].version) <= 0

-----------------------------------------------------------------------------
(* C7 *)

RECURSIVE SitesOf(_, _, _)
SitesOf(files, name, type) ==
    IF files = <<>> THEN <<>>
    ELSE LET Called(c) == c.name = name /\ c.type = type
         IN SelectSeq(Head(files).sites, Called) \o SitesOf(Tail(files), name, type)

RECURSIVE MapSiteArgs(_)
MapSiteArgs(sites) ==
    IF sites = <<>> THEN <<>> ELSE <<Head(sites).args>> \o MapSiteArgs(Tail(sites))

\* the signature the claim gives a hook at a version: by position over the
\* argument sequences of all its call sites at that version
SignatureOfCallSites(files, name, type) ==
    LET arrays == MapSiteArgs(SitesOf(files, name, type))
    IN [i \in 1..MaxLen(arrays) |->
          LET LongEnough(args) == i <= Len(args)
          IN chooseBestArgumentName(MapAt(SelectSeq(arrays, LongEnough), i))]

\* the call sites of the name at the version all have the one type
OneTypeAt(files, name, type) ==
    \A k \in 1..Len(files) : \A c \in Range(files[k].sites) : c.name = name => c.type = type

\* C7: for a value transformer or app event hook and a scanned version v with call
\* sites of it (and of no other hook type under its name), the history entry that
\* holds v carries the signature built by position and priority from every call
\* site of the hook at v, whether the call sites sit in one file or in several.
C7_SignatureFromEveryCallSite ==
    Consolidated =>
        \A h \in Hooks : \A v \in Range(versions) :
            (/\ TracksArguments(h.type)
             /\ Scanned(v)
             /\ OneTypeAt(tree[v], h.name, h.type)
             /\ SitesOf(tree[v], h.name, h.type) # <<>>)
            => \E e \in Range(h.argumentHistory) :
                  /\ v \in Range(e.versions)
                  /\ e.arguments = SignatureOfCallSites(tree[v], h.name, h.type)

-----------------------------------------------------------------------------
(* C8 *)

\* C8: every argumentHistory entry the consolidation produced has as its
\* firstSeenVersion the earliest of its versions.
C8_FirstSeenIsEarliest ==
    Consolidated =>
        \A h \in Hooks : TracksArguments(h.type) =>
            \A e \in Range(h.argumentHistory) :
                /\ e.firstSeenVersion \in Range(e.versions)
                /\ \A v \in Range(e.versions) : compareVersions(e.firstSeenVersion, v) <= 0

-----------------------------------------------------------------------------
(* C9 *)

\* the newest version of the catalog
NewestScanned == versions[Len(versions)]

\* the hooks of the artifact that the source of the newest version does not contain
GoneFromNewest ==
    {h \in Range(report.hooks) :
        \A k \in 1..Len(tree[NewestScanned]) :
            \A c \in Range(tree[NewestScanned][k].sites) : c.name # h.name}

\* C9: a hook that the newest scanned version's source does not contain is retired
\* in the artifact: not in the latest version, counted in retiredHooks, and listed
\* in retiredHooksList with the last version that has it.
C9_AbsentFromNewestIsRetired ==
    pc = "done" =>
        /\ \A h \in GoneFromNewest :
              /\ ~InVersion(h, report.latestVersion)
              /\ \E e \in Range(report.summary.retiredHooksList) :
                    e.name = h.name /\ e.lastSeenVersion = LastSeenVersion(h)
        /\ report.retiredHooks >= Cardinality(GoneFromNewest)
        /\ report.hooksInLatestVersion <= report.totalHooks - Cardinality(GoneFromNewest)

-----------------------------------------------------------------------------
(* C10 *)

\* C10: after consolidation, two distinct argumentHistory entries of a hook that is
\* not a behavior transformer share no version.
C10_HistoryVersionsDisjoint ==
    Consolidated =>
        \A h \in Hooks : h.type # BehaviorTransformer =>
            \A a, b \in 1..Len(h.argumentHistory) :
                a # b => Range(h.argumentHistory[a].versions)
                         \cap Range(h.argumentHistory[b].versions) = {}

-----------------------------------------------------------------------------
(* C11 *)

\* C11: a hook of type behavior_transformer has an empty argumentHistory, in
\* hooksDb at every moment of the merge and after it, and in the written artifact.
C11_BehaviorTransformerNoHistory ==
    /\ \A h \in Hooks : h.type = BehaviorTransformer => h.argumentHistory = <<>>
    /\ report.written =>
          \A h \in Range(report.hooks) :
              h.type = BehaviorTransformer => h.argumentHistory = <<>>

-----------------------------------------------------------------------------
(* C12 *)

\* the number of records merged into a hook so far: every record adds its version
\* to one entry of the provisional history
RecordsMerged(h) ==
    SeqSum([k \in 1..Len(h.argumentHistory) |-> Len(h.argumentHistory[k].versions)])

\* C12: in every state, a hook of hooksDb has at most one Location per
\* (version, file) pair.
C12_OneLocationPerVersionFile ==
    \A h \in Hooks : \A a, b \in 1..Len(h.locations) :
        (/\ h.locations[a].version = h.locations[b].version
         /\ h.locations[a].file = h.locations[b].file) => a = b

\* the merge is under way, and a hook with Locations in several versions has
\* taken more records than it has Locations: a record met its Location
C12_Witness ==
    /\ pc = "merge"
    /\ \E h \in Hooks :
          /\ Cardinality({h.locations[k].version : k \in 1..Len(h.locations)}) >= 2
          /\ RecordsMerged(h) > Len(h.locations)

-----------------------------------------------------------------------------
(* C13 *)

\* non-empty and strictly ascending, hence free of duplicates
StrictlyAscending(lines) ==
    /\ lines # <<>>
    /\ \A a, b \in 1..Len(lines) : a < b => lines[a] < lines[b]

\* C13: the lines of every record a worker posted, of every record in results and
\* of every Location of hooksDb are non-empty and strictly ascending.
C13_LinesStrictlyAscending ==
    /\ \A i \in 1..Len(inbox) :
          IsResultMessage(inbox[i]) =>
              \A r \in Range(inbox[i].hooks) : StrictlyAscending(r.lines)
    /\ \A rs \in Range(results) : \A r \in Range(rs) : StrictlyAscending(r.lines)
    /\ \A h \in Hooks : \A loc \in Range(h.locations) : StrictlyAscending(loc.lines)

\* a worker folded the component on lines 5-6 and then the helper on line 2 into
\* one record, and the merge took a record into a Location with later lines
C13_Witness ==
    /\ \E rs \in Range(results) : \E r \in Range(rs) : r.lines = <<2, 5, 6>>
    /\ \E h \in Hooks : \E loc \in Range(h.locations) : loc.lines = <<2, 5, 6>>

-----------------------------------------------------------------------------
(* C14 *)

\* the key of a record in the worker's hookMap
KeyOf(r) == <<r.name, r.type, r.file>>

\* C14: the hooks a worker posts hold exactly one record per (name, type, file) of
\* the raw occurrences findHooks found in its snapshot; the lines of a record are
\* the ascending, duplicate-free union of the lines of the raw occurrences with
\* its key, its arguments are those of the first of them, and folding a raw
\* occurrence in a second time changes nothing.
C14_WorkerFoldsByKey ==
    \A i \in 1..Len(inbox) :
        IsResultMessage(inbox[i]) =>
            LET v == versions[i]
                raw == findHooks(snapshots[v].files)
                out == inbox[i].hooks
                Folded(k) == AggregateHooks(<<>>, SubSeq(raw, 1, k), v)
            IN /\ \A a, b \in 1..Len(out) : KeyOf(out[a]) = KeyOf(out[b]) => a = b
               /\ {KeyOf(r) : r \in Range(out)} = {KeyOf(o) : o \in Range(raw)}
               /\ \A r \in Range(out) :
                     LET SameKey(o) == KeyOf(o) = KeyOf(r)
                         same == SelectSeq(raw, SameKey)
                     IN /\ \A a, b \in 1..Len(r.lines) : a < b => r.lines[a] < r.lines[b]
                        /\ Range(r.lines) = UNION {Range(o.lines) : o \in Range(same)}
                        /\ r.arguments = ArgumentsOrEmpty(Head(same))
                        /\ r.version = v
               /\ \A k \in 1..Len(raw) : AggregateHook(Folded(k), raw[k], v) = Folded(k)

\* a worker posted the record of x folded from the call on line 2 with (topic) and
\* the later call on line 5 with (topic, user), each found by both scans
C14_Witness ==
    \E i \in 1..Len(inbox) :
        /\ IsResultMessage(inbox[i])
        /\ \E r \in Range(inbox[i].hooks) :
              /\ r.lines = <<2, 5>>
              /\ r.arguments = <<tTopic>>
              /\ Len(findHooks(snapshots[versions[i]].files)) = 4

-----------------------------------------------------------------------------
(* C15 *)

\* no worker was started, nothing was merged and no report was written
NothingDone ==
    /\ wstate = <<>>
    /\ workers = <<>>
    /\ versionIndex = 0
    /\ results = <<>>
    /\ hooksDb = <<>>
    /\ report = NoReport

\* C15: when getDiscourseVersions returns the empty catalog (which it does when
\* fetching the tag list fails), run() returns at once: no worker is started,
\* nothing is merged, no report is written, the promise of run() is not rejected
\* and the process ends with exit code 0.
C15_EmptyCatalogDoesNothing ==
    /\ [][(pc = "start" /\ pc' # "start" /\ pc' # "rejected" /\ versions' = <<>>)
            => pc' = "exit"]_vars
    /\ [](pc = "exit" => versions = <<>> /\ NothingDone
                         /\ (exitCode.ended => exitCode.code = 0))
    /\ [][pc = "exit" => pc' = "exit" /\ NothingDone']_vars

\* the run returned on the empty catalog and the process has ended
C15_Witness ==
    /\ pc = "exit"
    /\ versions = <<>>
    /\ exitCode = Exited(0)

-----------------------------------------------------------------------------
(* C16 *)

\* the run ended because the catalog failed: run() returned on the empty catalog
CatalogFailed == pc = "exit"

\* C16: when the process has ended, it ended with a non-zero exit code and without
\* an artifact if the catalog failed, and with an artifact if it did not.
C16_OnlyCatalogFailureEndsWithoutArtifact ==
    exitCode.ended =>
        /\ CatalogFailed => exitCode.code # 0 /\ ~report.written
        /\ ~CatalogFailed => report.written

-----------------------------------------------------------------------------
(* C17 *)

\* the files of a walk without the file whose read failed
OtherFiles(files, k) == RemoveAt(files, k)

\* C17: when the read of one file fails in the walk of a version, the worker still
\* posts the records of the occurrences in every other file of its snapshot.
C17_ReadFailureSkipsOneFile ==
    \A i \in 1..Len(wstate) :
        (wstate[i] = "posted" /\ readFailed[i] # 0) =>
            Range(WorkerHooks(OtherFiles(snapshots[versions[i]].files, readFailed[i]),
                              versions[i]))
                \subseteq Range(inbox[i].hooks)

-----------------------------------------------------------------------------
(* C18 *)

\* the worker of version index i gets through its provisioning in this step
Provisioned(i) ==
    /\ wstate[i] = "running"
    /\ wstate'[i] = "posted"
    /\ (IsResultMessage(inbox'[i]) \/ readFailed'[i] # 0)

-----------------------------------------------------------------------------
(* C19 *)

\* the versions of the Locations of a hook of the artifact
LocationVersions(h) == {h.locations[k].version : k \in 1..Len(h.locations)}

\* the positions of the hooks of the artifact without a Location at its latest version
RetiredPositions ==
    {k \in 1..Len(report.hooks) : report.latestVersion \notin LocationVersions(report.hooks[k])}

\* C19: in the written artifact, retiredHooks is the number of hooks without a
\* Location at latestVersion and hooksInLatestVersion the number of the others;
\* every entry of retiredHooksList names such a hook and carries as
\* lastSeenVersion the greatest, under compareVersions, of its Location versions.
C19_RetiredHooksAndLastSeen ==
    report.written =>
        /\ report.retiredHooks = Cardinality(RetiredPositions)
        /\ report.hooksInLatestVersion = Len(report.hooks) - Cardinality(RetiredPositions)
        /\ \A e \in Range(report.summary.retiredHooksList) :
              \E k \in RetiredPositions :
                  /\ report.hooks[k].name = e.name
                  /\ e.lastSeenVersion \in LocationVersions(report.hooks[k])
                  /\ \A v \in LocationVersions(report.hooks[k]) :
                        compareVersions(v, e.lastSeenVersion) <= 0

\* the artifact lists a retired hook with Locations in several versions, the
\* greatest of which is not the one merged last
C19_Witness ==
    /\ report.written
    /\ report.retiredHooks >= 1
    /\ report.hooksInLatestVersion >= 1
    /\ \E k \in RetiredPositions :
          LET h == report.hooks[k]
          IN /\ Cardinality(LocationVersions(h)) >= 2
             /\ \E e \in Range(report.summary.retiredHooksList) :
                   e.name = h.name /\ e.lastSeenVersion # h.locations[Len(h.locations)].version

-----------------------------------------------------------------------------
(* C20 *)

\* the order of the (major, minor, patch) triples
LexLess(a, b) ==
    \/ a[1] < b[1]
    \/ a[1] = b[1] /\ a[2] < b[2]
    \/ a[1] = b[1] /\ a[2] = b[2] /\ a[3] < b[3]

Sign(n) == IF n < 0 THEN -1 ELSE IF n > 0 THEN 1 ELSE 0

\* C20: on the tags of any three versions a, b, c, compareVersions orders two
\* numeric versions as their triples are ordered lexicographically and returns 0
\* exactly for equal triples; main is greater than every numeric version and
\* equal to itself; the results are antisymmetric and transitive.
C20_CompareVersionsTotalOrder ==
    pc = "compared" =>
        LET a == cmpArgs[1]
            b == cmpArgs[2]
            c == cmpArgs[3]
        IN /\ (a # Main /\ b # Main) =>
                  /\ cmpOut.ab < 0 <=> LexLess(a, b)
                  /\ cmpOut.ab > 0 <=> LexLess(b, a)
                  /\ cmpOut.ab = 0 <=> a = b
           /\ (a = Main /\ b # Main) => (cmpOut.ab > 0 /\ cmpOut.ba < 0)
           /\ (a = Main /\ b = Main) => cmpOut.ab = 0
           /\ cmpOut.aa = 0
           /\ Sign(cmpOut.ab) = 0 - Sign(cmpOut.ba)
           /\ (cmpOut.ab <= 0 /\ cmpOut.ba <= 0) => a = b
           /\ (cmpOut.ab <= 0 /\ cmpOut.bc <= 0) => cmpOut.ac <= 0

\* v2.9.10, v2.10.2 and main were compared: 9 is below 10 as a number, though "10"
\* is below "9" as text
C20_Witness ==
    /\ pc = "compared"
    /\ cmpArgs = <<<<2, 9, 10>>, <<2, 10, 2>>, Main>>
    /\ cmpOut.ab < 0
    /\ cmpOut.bc < 0
    /\ cmpOut.ac < 0
    /\ cmpOut.ba > 0

-----------------------------------------------------------------------------
(* C21 *)

\* the consolidated signatures of a hook of the artifact, one per version of its
\* Locations
DistinctSignatures(h) ==
    {consolidateArgumentsForVersion(h, v) : v \in LocationVersions(h)}

\* C21: for every value transformer or app event hook of the artifact,
\* argumentChangeCount is the number of distinct per-version consolidated
\* signatures minus one and hasArgumentChanges says whether that number exceeds
\* one (so a hook with one signature at every version counts 0 changes).
C21_ChangeCountFromSignatures ==
    report.written =>
        \A h \in Range(report.hooks) :
            TracksArguments(h.type) =>
                /\ h.argumentChangeCount = Cardinality(DistinctSignatures(h)) - 1
                /\ h.hasArgumentChanges <=> Cardinality(DistinctSignatures(h)) > 1
                /\ Len(h.argumentHistory) = Cardinality(DistinctSignatures(h))

\* the artifact holds x with (topic, user) at two tags and (topic, currentUser) at
\* a third: two signatures over three versions, one change
C21_Witness ==
    /\ report.written
    /\ \E h \in Range(report.hooks) :
          /\ h.type = ValueTransformer
          /\ Cardinality(LocationVersions(h)) = 3
          /\ DistinctSignatures(h) = {<<tTopic, tUser>>, <<tTopic, tCurrentUser>>}
          /\ h.argumentChangeCount = 1
          /\ h.hasArgumentChanges

-----------------------------------------------------------------------------
(* C22 *)

\* what the parser that ran makes of one argument
NormalizedBy(by, arg) ==
    IF by = "parseArguments" THEN normalizeArgument(arg) ELSE normalizeAppEventArg(arg)

\* C22: the parser returns one token per top-level argument of the call (a comma
\* inside brackets, braces or a quoted string does not split), and the k-th token
\* is the token of the k-th argument of the source text, for parseArguments and
\* for parseAppEventArgs.
C22_OneTokenPerArgumentInOrder ==
    pc = "parsed" =>
        /\ Len(parsed.tokens) = Len(callArgs)
        /\ \A k \in 1..Len(callArgs) :
              parsed.tokens[k] = NormalizedBy(parsed.by, callArgs[k])

-----------------------------------------------------------------------------
(* C23 *)

\* the object literals of the calls: the keys a and b, in both orders and with
\* different values
MapLiterals == {aMapBA, aMapAB}

\* {a,b}
tKeysAB == <<"{", "a", ",", "b", "}">>

\* C23: an object literal argument becomes the token listing its keys in sorted
\* order, whatever the order and the values of the source, in the arguments of a
\* value transformer call and of an app event call: the tokens hold {a,b} and not
\* the text of the literal.
C23_MapLiteralIsCanonical ==
    pc = "parsed" =>
        \A k \in 1..Len(callArgs) :
            callArgs[k] \in MapLiterals =>
                /\ tKeysAB \in Range(parsed.tokens)
                /\ callArgs[k] \notin Range(parsed.tokens)

-----------------------------------------------------------------------------
(* C28 *)

\* the literal arguments of the calls
Literals == {aStringAB, aStringC, aNumber, aTrue, aArray, aNull}

\* the token the kind of a literal stands for
LiteralToken(arg) ==
    IF arg \in {aStringAB, aStringC} THEN tString
    ELSE IF arg = aNumber THEN tNumber
    ELSE IF arg = aTrue THEN tBoolean
    ELSE IF arg = aArray THEN tArray
    ELSE tNull

\* C28: a quoted string argument becomes the token string, an integer number, true
\* or false boolean, an array literal array and null null, in the arguments of a
\* value transformer call and of an app event call; no token is the text of a
\* string, a number, a boolean or an array.
C28_LiteralsBecomeKindTokens ==
    pc = "parsed" =>
        \A k \in 1..Len(callArgs) :
            callArgs[k] \in Literals =>
                /\ LiteralToken(callArgs[k]) \in Range(parsed.tokens)
                /\ callArgs[k] # aNull => callArgs[k] \notin Range(parsed.tokens)

-----------------------------------------------------------------------------
(* C24 *)

\* the versions claimed so far are the first versionIndex of the list, the live
\* workers are bound to pairwise different versions, and when the scheduler has
\* resolved every version was claimed and its worker is gone
C24_BoundOnce ==
    /\ versionIndex <= Len(versions)
    /\ \A i \in 1..Len(wstate) : wstate[i] = "unclaimed" <=> i > versionIndex
    /\ \A j, k \in 1..Len(workers) :
          j # k => workers[j] # workers[k] /\ versions[workers[j]] # versions[workers[k]]
    /\ Range(workers) = LiveWorkers
    /\ Resolved =>
          /\ versionIndex = Len(versions)
          /\ \A i \in 1..Len(wstate) : wstate[i] = "terminated"

\* a step starts a worker only for a version no worker was bound to before, and
\* a terminated worker stays terminated
C24_NeverTwice ==
    Len(wstate') = Len(wstate) =>
        \A i \in 1..Len(wstate) :
            /\ (wstate'[i] = "running" /\ wstate[i] # "running") => wstate[i] = "unclaimed"
            /\ wstate[i] = "terminated" => wstate'[i] = "terminated"
            /\ wstate[i] # "unclaimed" => wstate'[i] # "unclaimed"

\* C24: every version of the list is bound to exactly one worker over the run, none
\* skipped and none processed twice, so no two workers provision or scan the
\* snapshot directory of one version.
C24_OneWorkerPerVersion == []C24_BoundOnce /\ [][C24_NeverTwice]_vars

\* four versions went through two worker slots and the scheduler has resolved
C24_Witness ==
    /\ Resolved
    /\ Len(versions) = 4
    /\ maxWorkers = 2
    /\ versionIndex = 4
    /\ \A i \in 1..4 : wstate[i] = "terminated"

-----------------------------------------------------------------------------
(* C25 *)

\* the main thread handles the report of the worker of version index i in this
\* step: its message or its error event
Reports(i) ==
    /\ i \in 1..Len(wstate)
    /\ Len(wstate') = Len(wstate)
    /\ wstate[i] \in {"posted", "crashed"}
    /\ wstate'[i] = "terminated"

\* when a report is handled while versions are unclaimed, the reporting worker is
\* terminated and one worker is started, for the next version of the list
C25_ReportStartsNext ==
    \A i \in 1..Len(wstate) :
        (Reports(i) /\ versionIndex < Len(versions)) =>
            /\ versionIndex' = versionIndex + 1
            /\ wstate' = [wstate EXCEPT ![i] = "terminated", ![versionIndex + 1] = "running"]
            /\ workers' = Append(RemoveAt(workers, IndexOf(workers, i)), versionIndex + 1)
            /\ Cardinality(LiveWorkers') = Cardinality(LiveWorkers)

\* while versions are unclaimed the number of live workers is the cap
C25_LiveAtCap ==
    (pc \in {"await", "merge", "report", "done"} /\ versionIndex < Len(versions)) =>
        Cardinality(LiveWorkers) = maxWorkers

\* C25: whenever a worker reports, by a message or by an error, while unclaimed
\* versions remain, it is terminated and exactly one worker is started for the next
\* unclaimed version in list order; the live worker count stays at the cap until
\* the list is exhausted.
C25_ReplaceOnReport == []C25_LiveAtCap /\ [][C25_ReportStartsNext]_vars

\* the failure message of a worker is being handled while a version is unclaimed:
\* two slots, the first two of three versions claimed
C25_Witness ==
    /\ pc = "await"
    /\ maxWorkers = 2
    /\ Len(versions) = 3
    /\ versionIndex = 3
    /\ wstate[3] = "running"
    /\ \E i \in 1..2 : wstate[i] = "terminated" /\ completed = 0

-----------------------------------------------------------------------------
(* C26 *)

\* a sequence without a repeated element
NoRepeat(s) == \A j, k \in 1..Len(s) : j # k => s[j] # s[k]

\* C26: in every argumentHistory entry of the artifact, for a hook of any type,
\* versions holds each version at most once, so changeCount is the number of
\* distinct versions the signature was observed at.
C26_HistoryVersionsOnce ==
    report.written =>
        \A h \in Range(report.hooks) :
            \A e \in Range(h.argumentHistory) :
                /\ NoRepeat(e.versions)
                /\ e.changeCount = Cardinality(Range(e.versions))

-----------------------------------------------------------------------------
(* C27 *)

\* the hooks of the artifact with a positive argumentChangeCount
ChangedHooks == {h \in Range(report.hooks) : h.argumentChangeCount > 0}

\* the hook of the artifact an entry of hooksWithMostChanges stands for
Listed(h) ==
    \E k \in 1..Len(report.summary.hooksWithMostChanges) :
        /\ report.summary.hooksWithMostChanges[k].name = h.name
        /\ report.summary.hooksWithMostChanges[k].changes = h.argumentChangeCount

\* C27: summary.hooksWithMostChanges holds at most 10 hooks in non-increasing order
\* of argumentChangeCount and is the top of all hooks by argumentChangeCount: no
\* hook left out has more changes than a listed one, and when fewer than 10 hooks
\* have a positive count all of them are listed.
C27_MostChangesIsTopOfAllHooks ==
    report.written =>
        LET most == report.summary.hooksWithMostChanges
        IN /\ Len(most) <= MostChangesLimit
           /\ \A k \in 1..(Len(most) - 1) : most[k].changes >= most[k + 1].changes
           /\ \A k \in 1..Len(most) : \E h \in ChangedHooks : Listed(h) /\ most[k].name = h.name
           /\ \A h \in Range(report.hooks) :
                 ~Listed(h) => \A k \in 1..Len(most) : h.argumentChangeCount <= most[k].changes
           /\ Cardinality(ChangedHooks) < MostChangesLimit =>
                 \A h \in ChangedHooks : Listed(h)

-----------------------------------------------------------------------------
(* C30 *)

\* the sum of the values of an object of counts
RECURSIVE SumOver(_, _)
SumOver(counts, keys) ==
    IF keys = {} THEN 0
    ELSE LET k == CHOOSE x \in keys : TRUE
         IN counts[k] + SumOver(counts, keys \ {k})

SumOfValues(counts) == SumOver(counts, DOMAIN counts)

\* C30: in every artifact hooksInLatestVersion + retiredHooks = totalHooks, the
\* values of hooksByType sum to totalHooks, and the values of
\* latestVersionHooksByType sum to hooksInLatestVersion.
C30_CountsAddUp ==
    report.written =>
        /\ report.hooksInLatestVersion + report.retiredHooks = report.totalHooks
        /\ SumOfValues(report.hooksByType) = report.totalHooks
        /\ SumOfValues(report.latestVersionHooksByType) = report.hooksInLatestVersion
        /\ report.totalHooks = Len(report.hooks)

\* an artifact of three hooks of three types, two of them in the latest version
\* and one retired
C30_Witness ==
    /\ report.written
    /\ report.totalHooks = 3
    /\ report.hooksInLatestVersion = 2
    /\ report.retiredHooks = 1
    /\ Cardinality(DOMAIN report.hooksByType) = 3
    /\ Cardinality(DOMAIN report.latestVersionHooksByType) = 2

-----------------------------------------------------------------------------
(* C29 *)

\* the worker of version index i has posted the hooks of a directory it found and
\* did not export in this run
PostedFromCache(i) ==
    /\ wstate[i] = "posted"
    /\ IsResultMessage(inbox[i])
    /\ versions[i] # Main
    /\ versions[i] \notin exports
    /\ runNo > 1

\* C29: a snapshot directory that exists for a version other than main always
\* holds a successfully exported tree; when the export of a version failed in one
\* run, a later run provisions the version again and does not take the empty or
\* partial directory for a cached snapshot.
C29_NoFailedExportIsCached ==
    /\ \A v \in Tags : snapshots[v].exists => snapshots[v].complete
    /\ \A i \in 1..Len(wstate) :
          PostedFromCache(i) =>
              (snapshots[versions[i]].exists => snapshots[versions[i]].complete)

\* the second run has posted the hooks of the directory a failed export of the
\* first run left
C29_CachedFailedExport ==
    \E i \in 1..Len(wstate) :
        /\ PostedFromCache(i)
        /\ snapshots[versions[i]].exists
        /\ ~snapshots[versions[i]].complete
        /\ inbox[i] = ResultMessage(PostedHooks[snapshots[versions[i]].files][versions[i]])
        /\ inbox[i] # ResultMessage(PostedHooks[tree[versions[i]]][versions[i]])

====
